---- MODULE Spec2Model ----
(***************************************************************************)
(* Model of the ModbusSniffer frame decoder (SerialSnooper.process_data,   *)
(* decodeModbus, calcCRC16), of the parsed-frame dispatch that             *)
(* ModbusParser.decodeModbus adds to it, of the dynamic-schema CSVLogger,  *)
(* and of the log view of the GUI (GUIApp.update_log_window).              *)
(*                                                                         *)
(* Buffers are sequences of bytes.  The source indexes them from 0; Rd     *)
(* reads index i of a buffer.  A read outside the buffer is Python's       *)
(* IndexError: the decoder records it in the flag oob and stops.           *)
(***************************************************************************)
EXTENDS Integers, Sequences, FiniteSets, TLC

VARIABLES
  data,             \* SerialSnooper.data: bytes received and not yet consumed
  trashdata,        \* SerialSnooper.trashdata: a noise run is open
  trashdataf,       \* SerialSnooper.trashdataf: the bytes listed in the open noise line
  pendingRequests,  \* SerialSnooper.pendingRequests: (unit, fc) -> (address, quantity)
  csv_logger,       \* SerialSnooper.csv_logger: the CSVLogger object, or NoLogger
  log,              \* the lines handed to log.info, oldest first
  on_parsed,        \* the events handed to the on_parsed callback, oldest first
  config,           \* the switches raw_log and raw_only the sniffer was built with
  crashed,          \* an exception left process_data
  wire,             \* bytes the bus will still deliver
  rx,               \* every byte received so far
  quiet,            \* the last process_data call was a silence signal
  today,            \* the calendar day datetime.now() reports
  call,             \* what the last decodeModbus call was given and returned
  closed,           \* close() was called: the main loop has ended
  gui               \* GUIApp: last_master, last_ok_color and the log window

vars ==
  <<data, trashdata, trashdataf, pendingRequests, csv_logger, config, log,
    on_parsed, crashed, wire, rx, quiet, today, call, closed, gui>>

-----------------------------------------------------------------------------
(* Bounds of the model.                                                    *)

(* The most data bytes a byte-count-prefixed frame on the wire carries.    *)
MaxCount ==
  4

(* The most junk bytes put in front of a frame.                            *)
MaxJunk ==
  2

(* The last day the clock reaches.                                         *)
MaxDay ==
  1

(* The most bytes of an arbitrary byte string put on the wire.             *)
MaxBytes ==
  4

(* The most frames of bus traffic put on the wire.                         *)
MaxFrames ==
  2

-----------------------------------------------------------------------------
(* Bytes and bit operations.                                               *)

Byte ==
  0..255

NA ==
  -1

Rd(buf, i) ==
  IF i >= 0 /\ i < Len(buf) THEN buf[i + 1] ELSE 0

Slice(buf, from, to) ==
  [k \in 1..(IF to > from THEN to - from ELSE 0) |-> buf[from + k]]

From(buf, from) ==
  Slice(buf, IF from < Len(buf) THEN from ELSE Len(buf), Len(buf))

Bit(x, k) ==
  (x \div (2 ^ k)) % 2

RECURSIVE XorBits(_, _, _)
XorBits(a, b, bits) ==
  IF bits = 0 THEN 0
  ELSE (IF a % 2 = b % 2 THEN 0 ELSE 1) + 2 * XorBits(a \div 2, b \div 2, bits - 1)

Xor8(a, b) ==
  XorBits(a, b, 8)

-----------------------------------------------------------------------------
(* calcCRC16: the table-driven CRC of data[0 .. size-1].                   *)

crcHiTable ==
  <<0, 193, 129, 64, 1, 192, 128, 65, 1, 192, 128, 65, 0, 193, 129, 64,
    1, 192, 128, 65, 0, 193, 129, 64, 0, 193, 129, 64, 1, 192, 128, 65,
    1, 192, 128, 65, 0, 193, 129, 64, 0, 193, 129, 64, 1, 192, 128, 65,
    0, 193, 129, 64, 1, 192, 128, 65, 1, 192, 128, 65, 0, 193, 129, 64,
    1, 192, 128, 65, 0, 193, 129, 64, 0, 193, 129, 64, 1, 192, 128, 65,
    0, 193, 129, 64, 1, 192, 128, 65, 1, 192, 128, 65, 0, 193, 129, 64,
    0, 193, 129, 64, 1, 192, 128, 65, 1, 192, 128, 65, 0, 193, 129, 64,
    1, 192, 128, 65, 0, 193, 129, 64, 0, 193, 129, 64, 1, 192, 128, 65,
    1, 192, 128, 65, 0, 193, 129, 64, 0, 193, 129, 64, 1, 192, 128, 65,
    0, 193, 129, 64, 1, 192, 128, 65, 1, 192, 128, 65, 0, 193, 129, 64,
    0, 193, 129, 64, 1, 192, 128, 65, 1, 192, 128, 65, 0, 193, 129, 64,
    1, 192, 128, 65, 0, 193, 129, 64, 0, 193, 129, 64, 1, 192, 128, 65,
    0, 193, 129, 64, 1, 192, 128, 65, 1, 192, 128, 65, 0, 193, 129, 64,
    1, 192, 128, 65, 0, 193, 129, 64, 0, 193, 129, 64, 1, 192, 128, 65,
    1, 192, 128, 65, 0, 193, 129, 64, 0, 193, 129, 64, 1, 192, 128, 65,
    0, 193, 129, 64, 1, 192, 128, 65, 1, 192, 128, 65, 0, 193, 129, 64>>

crcLoTable ==
  <<0, 192, 193, 1, 195, 3, 2, 194, 198, 6, 7, 199, 5, 197, 196, 4,
    204, 12, 13, 205, 15, 207, 206, 14, 10, 202, 203, 11, 201, 9, 8, 200,
    216, 24, 25, 217, 27, 219, 218, 26, 30, 222, 223, 31, 221, 29, 28, 220,
    20, 212, 213, 21, 215, 23, 22, 214, 210, 18, 19, 211, 17, 209, 208, 16,
    240, 48, 49, 241, 51, 243, 242, 50, 54, 246, 247, 55, 245, 53, 52, 244,
    60, 252, 253, 61, 255, 63, 62, 254, 250, 58, 59, 251, 57, 249, 248, 56,
    40, 232, 233, 41, 235, 43, 42, 234, 238, 46, 47, 239, 45, 237, 236, 44,
    228, 36, 37, 229, 39, 231, 230, 38, 34, 226, 227, 35, 225, 33, 32, 224,
    160, 96, 97, 161, 99, 163, 162, 98, 102, 166, 167, 103, 165, 101, 100, 164,
    108, 172, 173, 109, 175, 111, 110, 174, 170, 106, 107, 171, 105, 169, 168, 104,
    120, 184, 185, 121, 187, 123, 122, 186, 190, 126, 127, 191, 125, 189, 188, 124,
    180, 116, 117, 181, 119, 183, 182, 118, 114, 178, 179, 115, 177, 113, 112, 176,
    80, 144, 145, 81, 147, 83, 82, 146, 150, 86, 87, 151, 85, 149, 148, 84,
    156, 92, 93, 157, 95, 159, 158, 94, 90, 154, 155, 91, 153, 89, 88, 152,
    136, 72, 73, 137, 75, 139, 138, 74, 78, 142, 143, 79, 141, 77, 76, 140,
    68, 132, 133, 69, 135, 71, 70, 134, 130, 66, 67, 131, 65, 129, 128, 64>>

(* One pass of the loop body, on the pair c = <<crcHi, crcLo>>:            *)
(* crc = crcHi ^ buf[index]; crcHi = crcLo ^ crcHiTable[crc];              *)
(* crcLo = crcLoTable[crc]; index += 1.                                    *)
CrcPass(buf, index, c) ==
  LET crc == Xor8(c[1], Rd(buf, index))
  IN <<Xor8(c[2], crcHiTable[crc + 1]), crcLoTable[crc + 1]>>

(* The passes for index = from, ..., to - 1, in that order.  The range is  *)
(* halved rather than walked, and the pair a range starts from is looked   *)
(* at before the range is entered, which keeps the evaluation of a         *)
(* 266-byte CRC shallow; the passes made and their order are those of the  *)
(* loop.                                                                   *)
RECURSIVE CrcPasses(_, _, _, _)
CrcPasses(buf, from, to, c) ==
  IF to <= from \/ c \notin Byte \X Byte THEN c
  ELSE IF to = from + 1 THEN CrcPass(buf, from, c)
  ELSE CrcPasses(buf, (from + to) \div 2, to,
                 CrcPasses(buf, from, (from + to) \div 2, c))

(* The loop `while index < size`.                                          *)
CrcLoop(buf, size, index, crcHi, crcLo) ==
  LET c == CrcPasses(buf, index, size, <<crcHi, crcLo>>)
  IN (c[1] * 256) + c[2]

(* calcCRC16 with the two result bytes exchanged.                           *)
calcCRC16Swapped(buf, size) ==
  LET c == CrcLoop(buf, size, 0, 255, 255) IN ((c % 256) * 256) + (c \div 256)

(* calcCRC16 started from a register of 0x0000.                             *)
calcCRC16ZeroInit(buf, size) ==
  CrcLoop(buf, size, 0, 0, 0)

calcCRC16(buf, size) ==
  CrcLoop(buf, size, 0, 255, 255)

-----------------------------------------------------------------------------
(* Frame layouts.  An attempt at a layout at frame start f says whether    *)
(* the layout was accepted (ok), whether it asked for more data (more),    *)
(* the buffer index after the frame (end) and the highest index it read    *)
(* (hi).  The length test and the indexes read are separate facts of the   *)
(* source: the first is the literal expectedLenght, the second the sum of  *)
(* the field widths stepped over by bufferIndex.                           *)

U16(buf, i) ==
  (Rd(buf, i) * 256) + Rd(buf, i + 1)

NotTried ==
  [ok |-> FALSE, more |-> FALSE, end |-> 0, hi |-> NA]

NeedMore(hi) ==
  [ok |-> FALSE, more |-> TRUE, end |-> 0, hi |-> hi]

(* The CRC comparison on the second CRC byte only.                         *)
CrcCheckedLowByte(md, crcAt) ==
  [ok |-> Rd(md, crcAt + 1) = calcCRC16(md, crcAt) % 256, more |-> FALSE,
   end |-> crcAt + 2, hi |-> crcAt + 1]

(* crc16 = (modbusdata[bufferIndex] * 0x0100) + modbusdata[bufferIndex+1]  *)
(* compared with self.calcCRC16(modbusdata, bufferIndex): the frame ends   *)
(* after the two CRC bytes, the higher of which is the last index read.    *)
CrcChecked(md, crcAt) ==
  [ok |-> U16(md, crcAt) = calcCRC16(md, crcAt), more |-> FALSE,
   end |-> crcAt + 2, hi |-> crcAt + 1]

(* The fixed-length layout without its `else: needMoreData = True`.        *)
FixedNoWait(md, f, expectedLenght, body) ==
  IF Len(md) >= f + expectedLenght
  THEN CrcChecked(md, f + 2 + body)
  ELSE [NeedMore(f + 1) EXCEPT !.more = FALSE]

(* A layout of fixed length: id, fc, `body` bytes, crc(2).                 *)
Fixed(md, f, expectedLenght, body) ==
  IF Len(md) >= f + expectedLenght
  THEN CrcChecked(md, f + 2 + body)
  ELSE NeedMore(f + 1)

(* The byte-count-prefixed layout without its second length check.         *)
CountedUnchecked(md, f, expectedLenght, hdr, base) ==
  IF Len(md) >= f + expectedLenght
  THEN CrcChecked(md, f + 2 + hdr + 1 + Rd(md, f + 2 + hdr))
  ELSE NeedMore(f + 1)

(* A byte-count-prefixed layout: id, fc, `hdr` bytes, count(1),            *)
(* data(count), crc(2); the total length is base + count.                  *)
Counted(md, f, expectedLenght, hdr, base) ==
  IF Len(md) >= f + expectedLenght
  THEN LET count == Rd(md, f + 2 + hdr)
       IN IF Len(md) >= f + base + count
          THEN CrcChecked(md, f + 2 + hdr + 1 + count)
          ELSE NeedMore(f + 2 + hdr)
  ELSE NeedMore(f + 1)

(* The three attempts of one loop iteration: request layout, response      *)
(* layout (only when no request was accepted), exception layout.           *)
Tried(rq, rs, ex) ==
  [request |-> rq.ok, responce |-> rs.ok, error |-> ex.ok,
   needMoreData |-> rq.more \/ rs.more \/ ex.more,
   end |-> IF rq.ok THEN rq.end ELSE IF rs.ok THEN rs.end ELSE ex.end,
   hi |-> LET m1 == IF rq.hi > rs.hi THEN rq.hi ELSE rs.hi
          IN IF m1 > ex.hi THEN m1 ELSE ex.hi]

(* FC01 Read Coils, FC02 Read Discrete Inputs.                             *)
ReadBits(md, f) ==
  LET rq == Fixed(md, f, 8, 4)
      rs == IF rq.ok THEN NotTried ELSE Counted(md, f, 7, 0, 5)
  IN Tried(rq, rs, NotTried)

(* The FC03/FC04 branch with the response layout tried first.              *)
ReadRegistersResponseFirst(md, f) ==
  LET rs == Counted(md, f, 7, 0, 5)
      rq == IF rs.ok THEN NotTried ELSE Fixed(md, f, 8, 4)
  IN Tried(rq, rs, NotTried)

(* FC03 Read Holding Registers, FC04 Read Input Registers.                 *)
ReadRegisters(md, f) ==
  LET rq == Fixed(md, f, 8, 4)
      rs == IF rq.ok THEN NotTried ELSE Counted(md, f, 7, 0, 5)
  IN Tried(rq, rs, NotTried)

(* FC05 Write Single Coil: the response layout is id, fc, address, crc.    *)
WriteSingleCoil(md, f) ==
  LET rq == Fixed(md, f, 8, 4)
      rs == IF rq.ok THEN NotTried ELSE Fixed(md, f, 6, 2)
  IN Tried(rq, rs, NotTried)

(* The FC06 branch with the response layout tried first.                   *)
WriteSingleRegisterResponseFirst(md, f) ==
  LET rs == Fixed(md, f, 8, 4)
      rq == IF rs.ok THEN NotTried ELSE Fixed(md, f, 8, 4)
  IN Tried(rq, rs, NotTried)

(* FC06 Write Single Register.                                             *)
WriteSingleRegister(md, f) ==
  LET rq == Fixed(md, f, 8, 4)
      rs == IF rq.ok THEN NotTried ELSE Fixed(md, f, 8, 4)
  IN Tried(rq, rs, NotTried)

(* FC15 Write Multiple Coils.                                              *)
WriteMultipleCoils(md, f) ==
  LET rq == Counted(md, f, 10, 4, 9)
      rs == IF rq.ok THEN NotTried ELSE Fixed(md, f, 8, 4)
  IN Tried(rq, rs, NotTried)

(* FC16 Write Multiple registers; the only branch that also tries the      *)
(* exception layout.                                                       *)
WriteMultipleRegisters(md, f) ==
  LET rq == Counted(md, f, 11, 4, 9)
      rs == IF rq.ok THEN NotTried ELSE Fixed(md, f, 8, 4)
      ex == IF rq.ok \/ rs.ok THEN NotTried ELSE Fixed(md, f, 5, 1)
  IN Tried(rq, rs, ex)

(* The FC23 branch with a request layout two bytes longer: 15 + n.          *)
ReadWriteRegistersLonger(md, f) ==
  LET rq == Counted(md, f, 15, 8, 15)
      rs == IF rq.ok THEN NotTried ELSE Counted(md, f, 7, 0, 5)
  IN Tried(rq, rs, NotTried)

(* FC23 Read/Write Multiple registers.                                     *)
ReadWriteRegisters(md, f) ==
  LET rq == Counted(md, f, 15, 8, 13)
      rs == IF rq.ok THEN NotTried ELSE Counted(md, f, 7, 0, 5)
  IN Tried(rq, rs, NotTried)

(* FC80+ exception.                                                        *)
ExceptionFrame(md, f) ==
  Tried(NotTried, NotTried, Fixed(md, f, 5, 1))

(* An unmatched function code treated as a frame still arriving.           *)
UnhandledWaits ==
  Tried(NeedMore(NA), NotTried, NotTried)

(* No branch of the if/elif chain matches the function code.               *)
Unhandled ==
  Tried(NotTried, NotTried, NotTried)

(* The body of `if len(modbusdata) > (frameStartIndex + 2)`.               *)
Classify(md, f) ==
  IF Len(md) > f + 2
  THEN LET functionCode == Rd(md, f + 1)
       IN CASE functionCode \in {1, 2} -> ReadBits(md, f)
            [] functionCode \in {3, 4} -> ReadRegisters(md, f)
            [] functionCode = 5 -> WriteSingleCoil(md, f)
            [] functionCode = 6 -> WriteSingleRegister(md, f)
            [] functionCode = 15 -> WriteMultipleCoils(md, f)
            [] functionCode = 16 -> WriteMultipleRegisters(md, f)
            [] functionCode = 23 -> ReadWriteRegisters(md, f)
            [] functionCode >= 128 -> ExceptionFrame(md, f)
            [] OTHER -> Unhandled
  ELSE Tried(NeedMore(NA), NotTried, NotTried)

-----------------------------------------------------------------------------
(* What an accepted frame is logged as.  A log line is modelled by the     *)
(* values formatted into it; NA stands for a value the line does not       *)
(* carry.  kind is the request / responce / error flag that was set.       *)

(* [int.from_bytes(b[i:i+2], 'big') for i in range(0, len(b), 2)]          *)
Words(b) ==
  [k \in 1..((Len(b) + 1) \div 2) |->
     IF 2 * k <= Len(b) THEN (b[2 * k - 1] * 256) + b[2 * k] ELSE b[2 * k - 1]]

Line(who, kind, id, fc, address, quantity, count, values) ==
  [who |-> who, kind |-> kind, id |-> id, fc |-> fc, address |-> address,
   quantity |-> quantity, count |-> count, values |-> values,
   waddress |-> NA, wquantity |-> NA, exc |-> NA]

(* log.info(self.trashdataf) once "]" closes the noise line.               *)
IgnoringLine(bytes) ==
  Line("Warning", "ignoring", NA, NA, NA, NA, NA, bytes)

(* The read request line with the quantity read at the address's offset.   *)
ReadRequestLineSameOffset(md, f) ==
  Line("Master", "request", Rd(md, f), Rd(md, f + 1), U16(md, f + 2),
       U16(md, f + 2), NA, <<>>)

(* Master -> ID, <name>, Read address, Read Quantity  (FC 1, 2, 3, 4)      *)
ReadRequestLine(md, f) ==
  Line("Master", "request", Rd(md, f), Rd(md, f + 1), U16(md, f + 2),
       U16(md, f + 4), NA, <<>>)

(* Slave -> ID, <name>, Read byte count, Read data  (FC 1, 2, 3, 4, 23)    *)
ReadResponseLine(md, f) ==
  Line("Slave", "response", Rd(md, f), Rd(md, f + 1), NA, NA, Rd(md, f + 2),
       Words(Slice(md, f + 3, f + 3 + Rd(md, f + 2))))

(* Master -> ID, Write Single Coil / Register, Write address, Write data   *)
WriteSingleRequestLine(md, f) ==
  Line("Master", "request", Rd(md, f), Rd(md, f + 1), U16(md, f + 2), NA, NA,
       Words(Slice(md, f + 4, f + 6)))

(* Slave -> ID, Write Single Coil, Write address                           *)
WriteCoilResponseLine(md, f) ==
  Line("Slave", "response", Rd(md, f), Rd(md, f + 1), U16(md, f + 2), NA, NA,
       <<>>)

(* Slave -> ID, Write Single Register, Write address, Write data (hex)     *)
WriteRegisterResponseLine(md, f) ==
  Line("Slave", "response", Rd(md, f), Rd(md, f + 1), U16(md, f + 2), NA, NA,
       Slice(md, f + 4, f + 6))

(* Master -> ID, Write Multiple Coils / registers, address, quantity, data *)
WriteMultipleRequestLine(md, f) ==
  Line("Master", "request", Rd(md, f), Rd(md, f + 1), U16(md, f + 2),
       U16(md, f + 4), NA, Words(Slice(md, f + 7, f + 7 + Rd(md, f + 6))))

(* Slave -> ID, Write Multiple Coils / registers, address, quantity        *)
WriteMultipleResponseLine(md, f) ==
  Line("Slave", "response", Rd(md, f), Rd(md, f + 1), U16(md, f + 2),
       U16(md, f + 4), NA, <<>>)

(* Master -> ID, Read/Write Multiple registers: both address/quantity      *)
(* pairs and the write data.                                               *)
ReadWriteRequestLine(md, f) ==
  [Line("Master", "request", Rd(md, f), Rd(md, f + 1), U16(md, f + 2),
        U16(md, f + 4), NA, Words(Slice(md, f + 11, f + 11 + Rd(md, f + 10))))
   EXCEPT !.waddress = U16(md, f + 6), !.wquantity = U16(md, f + 8)]

(* Slave -> ID, Exception, Code  (also the FC16 branch's exception line)   *)
ExceptionLine(md, f) ==
  [Line("Slave", "exception", Rd(md, f), Rd(md, f + 1), NA, NA, NA, <<>>)
   EXCEPT !.exc = Rd(md, f + 2)]

(* The log.info call of the layout that was accepted.                      *)
FrameLine(md, f, t) ==
  LET functionCode == Rd(md, f + 1)
  IN IF t.error THEN ExceptionLine(md, f)
     ELSE IF t.request
     THEN CASE functionCode \in {1, 2, 3, 4} -> ReadRequestLine(md, f)
            [] functionCode \in {5, 6} -> WriteSingleRequestLine(md, f)
            [] functionCode \in {15, 16} -> WriteMultipleRequestLine(md, f)
            [] OTHER -> ReadWriteRequestLine(md, f)
     ELSE CASE functionCode \in {1, 2, 3, 4, 23} -> ReadResponseLine(md, f)
            [] functionCode = 5 -> WriteCoilResponseLine(md, f)
            [] functionCode = 6 -> WriteRegisterResponseLine(md, f)
            [] OTHER -> WriteMultipleResponseLine(md, f)

-----------------------------------------------------------------------------
(* ModbusParser: the parsed_frames dictionary built for an accepted frame. *)
(* A key the dictionary does not hold is NA; data_address = []  is         *)
(* EmptyList.                                                              *)

EmptyList ==
  -2

(* The dictionary whose message_type is "response" whatever was accepted.  *)
ParsedAlwaysResponse(message_type, direction, md, f, data_address, data_qty, values) ==
  [message_type |-> "response", direction |-> direction,
   slave_id |-> Rd(md, f), function |-> Rd(md, f + 1),
   data_address |-> data_address, data_qty |-> data_qty, data |-> values,
   exception_code |-> NA]

Parsed(message_type, direction, md, f, data_address, data_qty, values) ==
  [message_type |-> message_type, direction |-> direction,
   slave_id |-> Rd(md, f), function |-> Rd(md, f + 1),
   data_address |-> data_address, data_qty |-> data_qty, data |-> values,
   exception_code |-> NA]

ParsedFrame(md, f, t) ==
  LET functionCode == Rd(md, f + 1)
      count == Rd(md, f + 2)
  IN IF t.error
     THEN [Parsed("response", "slave", md, f, NA, NA, <<>>)
           EXCEPT !.exception_code = Rd(md, f + 2)]
     ELSE IF t.request
     THEN CASE functionCode \in {1, 2, 3, 4} ->
                 Parsed("request", "master", md, f, U16(md, f + 2), U16(md, f + 4), <<>>)
            [] functionCode \in {5, 6} ->
                 Parsed("request", "master", md, f, U16(md, f + 2), NA,
                        Slice(md, f + 4, f + 6))
            [] functionCode \in {15, 16} ->
                 Parsed("request", "master", md, f, U16(md, f + 2), U16(md, f + 4),
                        Slice(md, f + 7, f + 7 + Rd(md, f + 6)))
            [] OTHER ->
                 Parsed("request", "master", md, f, NA, NA,
                        Slice(md, f + 11, f + 11 + Rd(md, f + 10)))
     ELSE CASE functionCode \in {1, 2, 3, 4} ->
                 Parsed("response", "slave", md, f, EmptyList, count,
                        Words(Slice(md, f + 3, f + 3 + count)))
            [] functionCode = 5 ->
                 Parsed("response", "slave", md, f, U16(md, f + 2), NA, <<>>)
            [] functionCode = 6 ->
                 Parsed("respons", "slave", md, f, U16(md, f + 2), NA,
                        Slice(md, f + 4, f + 6))
            [] functionCode \in {15, 16} ->
                 Parsed("response", "slave", md, f, U16(md, f + 2), U16(md, f + 4), <<>>)
            [] OTHER ->
                 Parsed("response", "slave", md, f, NA, NA, <<>>)

(* The FC16 branch's exception layout assigns no parsed_frames: the        *)
(* dictionary of an earlier iteration stays.                               *)
AssignsParsedFrame(md, f, t) ==
  ~(t.error /\ Rd(md, f + 1) = 16)

-----------------------------------------------------------------------------
(* CSVLogger.  Text is a sequence of characters; a file is the sequence of *)
(* its lines, a line the sequence of its cells, a cell a text.  files      *)
(* holds every file the logger created, csv_file the position of the open  *)
(* one (0 when there is none).  A day is a number; current_date_str is NA  *)
(* while no day is recorded.                                               *)

Digits ==
  <<"0", "1", "2", "3", "4", "5", "6", "7", "8", "9">>

(* str(n), as csv.writer and the f-strings format an integer.              *)
RECURSIVE Str(_)
Str(n) ==
  IF n < 10 THEN <<Digits[n + 1]>>
  ELSE Str(n \div 10) \o <<Digits[(n % 10) + 1]>>

(* datetime.now().isoformat(), to the resolution of the model's clock.     *)
IsoFormat(day) ==
  <<"D">> \o Str(day)

FixedColumns ==
  <<(<<"Timestamp">>), (<<"Slave ID">>), (<<"Operation">>)>>

(* f"Reg_{slave_id}_{reg_addr}"                                            *)
ColumnName(slave_id, reg_addr) ==
  <<"R", "e", "g", "_">> \o Str(slave_id) \o <<"_">> \o Str(reg_addr)

Range(s) ==
  {s[i] : i \in DOMAIN s}

SetMax(S) ==
  CHOOSE m \in S : \A x \in S : x <= m

(* list.index: the first position holding x, counted from 0.               *)
IndexOf(s, x) ==
  (CHOOSE j \in DOMAIN s : s[j] = x /\ \A i \in 1..(j - 1) : s[i] # x) - 1

NoLogger ==
  [present |-> FALSE, enable_csv |-> FALSE, daily_file |-> FALSE,
   register_map |-> <<>>, columns |-> FixedColumns, files |-> <<>>,
   csv_file |-> 0, current_date_str |-> NA, broken |-> FALSE]

(* Open a new file named after the current date and time, write the        *)
(* column list as its first line, record the day when rotating daily.      *)
open_csv_file(L, day) ==
  [L EXCEPT !.files = Append(L.files, <<L.columns>>),
            !.csv_file = Len(L.files) + 1,
            !.current_date_str = IF L.daily_file THEN day ELSE L.current_date_str]

(* CSVLogger.__init__                                                      *)
NewLogger(enable_csv, daily_file, day) ==
  LET L == [NoLogger EXCEPT !.present = TRUE, !.enable_csv = enable_csv,
                            !.daily_file = daily_file]
  IN IF enable_csv THEN open_csv_file(L, day) ELSE L

check_daily_rotation(L, day) ==
  IF ~L.daily_file THEN L
  ELSE IF day # L.current_date_str THEN open_csv_file(L, day)
  ELSE L

(* The remap that carries over the three fixed cells only.                *)
RemapRowFixedOnly(old_header, old_row, columns) ==
  [j \in 1..Len(columns) |->
     IF j <= 3 /\ j <= Len(old_row) THEN old_row[j] ELSE <<>>]

(* One old row laid out under the new column list: every old cell goes to  *)
(* the position its column name has now, the other cells are "".           *)
RemapRow(old_header, old_row, columns) ==
  [j \in 1..Len(columns) |->
     LET from == {c \in DOMAIN old_header :
                    /\ old_header[c] \in Range(columns)
                    /\ IndexOf(columns, old_header[c]) = j - 1}
     IN IF from = {} THEN <<>>
        ELSE IF SetMax(from) <= Len(old_row) THEN old_row[SetMax(from)]
        ELSE <<>>]

(* The rewrite that puts the new header over the old rows as they are.    *)
rewrite_header_only(L) ==
  IF L.csv_file = 0 THEN L
  ELSE [L EXCEPT !.files[L.csv_file] =
          <<L.columns>> \o (IF Len(@) > 1 THEN Tail(@) ELSE <<>>)]

rewrite_file_with_new_header(L) ==
  IF L.csv_file = 0 THEN L
  ELSE LET reader == L.files[L.csv_file]
           old_header == IF Len(reader) > 0 THEN reader[1] ELSE <<>>
           old_rows == IF Len(reader) > 1 THEN Tail(reader) ELSE <<>>
       IN [L EXCEPT !.files[L.csv_file] =
             <<L.columns>> \o
             [r \in 1..Len(old_rows) |-> RemapRow(old_header, old_rows[r], L.columns)]]

(* The expansion that puts a new register column in front of the register  *)
(* columns there are.                                                      *)
RECURSIVE ExpandedToInFront(_, _, _, _)
ExpandedToInFront(L, slave_id, start_register, k) ==
  IF k = 0 THEN [columns |-> L.columns, register_map |-> L.register_map]
  ELSE LET key == <<slave_id, start_register + (k - 1)>>
           p == ExpandedToInFront(L, slave_id, start_register, k - 1)
       IN IF key \in DOMAIN p.register_map THEN p
          ELSE [columns |-> FixedColumns \o <<ColumnName(key[1], key[2])>>
                              \o SubSeq(p.columns, 4, Len(p.columns)),
                register_map |->
                  [q \in DOMAIN p.register_map \cup {key} |->
                     IF q = key THEN 3
                     ELSE p.register_map[q] + 1]]

(* The column list and register map after the first k offsets.             *)
RECURSIVE ExpandedTo(_, _, _, _)
ExpandedTo(L, slave_id, start_register, k) ==
  IF k = 0 THEN [columns |-> L.columns, register_map |-> L.register_map]
  ELSE LET key == <<slave_id, start_register + (k - 1)>>
           p == ExpandedTo(L, slave_id, start_register, k - 1)
       IN IF key \in DOMAIN p.register_map THEN p
          ELSE [columns |-> Append(p.columns, ColumnName(key[1], key[2])),
                register_map |->
                  [q \in DOMAIN p.register_map \cup {key} |->
                     IF q = key THEN Len(p.columns)
                     ELSE p.register_map[q]]]

expand_header_for_registers(L, slave_id, start_register, quantity) ==
  LET e == ExpandedTo(L, slave_id, start_register, quantity)
      changed == Len(e.columns) # Len(L.columns)
      grown == [L EXCEPT !.columns = e.columns, !.register_map = e.register_map]
  IN IF changed THEN rewrite_file_with_new_header(grown) ELSE grown

(* The row with every value one register too far.                          *)
DataRowOffByOne(L, timestamp, slave_id, operation, start_register, register_values) ==
  [j \in 1..Len(L.columns) |->
     LET hits == {i \in 0..(Len(register_values) - 1) :
                    /\ <<slave_id, start_register + i + 1>> \in DOMAIN L.register_map
                    /\ L.register_map[<<slave_id, start_register + i + 1>>] = j - 1}
     IN IF hits # {} THEN Str(register_values[SetMax(hits) + 1])
        ELSE IF j = 1 THEN timestamp
        ELSE IF j = 2 THEN Str(slave_id)
        ELSE IF j = 3 THEN operation
        ELSE <<>>]

(* The row log_data builds, as csv.writer writes it.                       *)
DataRow(L, timestamp, slave_id, operation, start_register, register_values) ==
  [j \in 1..Len(L.columns) |->
     LET hits == {i \in 0..(Len(register_values) - 1) :
                    /\ <<slave_id, start_register + i>> \in DOMAIN L.register_map
                    /\ L.register_map[<<slave_id, start_register + i>>] = j - 1}
     IN IF hits # {} THEN Str(register_values[SetMax(hits) + 1])
        ELSE IF j = 1 THEN timestamp
        ELSE IF j = 2 THEN Str(slave_id)
        ELSE IF j = 3 THEN operation
        ELSE <<>>]

log_data(L, timestamp, slave_id, operation, start_register, quantity, register_values, day) ==
  IF ~L.enable_csv THEN L
  ELSE LET R == check_daily_rotation(L, day)
           E == expand_header_for_registers(R, slave_id, start_register, quantity)
       IN [E EXCEPT !.files[E.csv_file] =
             Append(@, DataRow(E, timestamp, slave_id, operation, start_register,
                               register_values))]

-----------------------------------------------------------------------------
(* log_data raises: the logger is enabled and its file operations fail    *)
(* (disk full, file removed, directory read-only); nothing in log_data    *)
(* catches the OSError.                                                    *)
log_data_raises(L) ==
  L.enable_csv /\ L.broken

(* The logger when log_data raised at its first file operation: the open   *)
(* of a rotation, else the rewrite after the columns were added in memory, *)
(* else the write of the row.                                              *)
log_data_failed(L, slave_id, start_register, quantity, day) ==
  IF L.daily_file /\ day # L.current_date_str THEN L
  ELSE LET e == ExpandedTo(L, slave_id, start_register, quantity)
       IN [L EXCEPT !.columns = e.columns, !.register_map = e.register_map]

-----------------------------------------------------------------------------
(* decodeModbus.  The decoder's working state is a record d: the locals    *)
(* modbusdata, bufferIndex and parsed_frames, the object fields the loop   *)
(* changes, the output so far, whether the call has returned, and what     *)
(* the call did (noise: the bytes discarded, frames: the byte sequences    *)
(* accepted, iterations: loop iterations run, oob: an index was read       *)
(* outside the buffer, so that the call ended in IndexError, raised: a     *)
(* log_data call raised and the exception left decodeModbus).              *)

Decoder(S, buf) ==
  [modbusdata |-> buf, bufferIndex |-> 0, parsed_frames |-> <<>>,
   trashdata |-> S.trashdata, trashdataf |-> S.trashdataf,
   pendingRequests |-> S.pendingRequests, csv_logger |-> S.csv_logger,
   raw_log |-> S.raw_log, log |-> S.log, on_parsed |-> S.on_parsed,
   returned |-> FALSE, oob |-> FALSE, raised |-> FALSE, noise |-> <<>>,
   frames |-> <<>>, iterations |-> 0]

(* Raw Message: the frame's bytes in hex.                                  *)
RawLine(bytes) ==
  Line("Raw", "raw", NA, NA, NA, NA, NA, bytes)

(* The store that keeps the entry a key already has.                      *)
StorePendingKeepsFirst(pending, key, entry) ==
  [q \in DOMAIN pending \cup {key} |->
     IF q \in DOMAIN pending THEN pending[q] ELSE entry]

(* self.pendingRequests[(unitIdentifier, functionCode)] = (...)            *)
StorePending(pending, key, entry) ==
  [q \in DOMAIN pending \cup {key} |-> IF q = key THEN entry ELSE pending[q]]

(* The pop that empties the whole map.                                      *)
PopPendingAll(pending, key) ==
  <<>>

(* self.pendingRequests.pop((unitIdentifier, functionCode), None)          *)
PopPending(pending, key) ==
  [q \in DOMAIN pending \ {key} |-> pending[q]]

(* The arguments of a log_data call; calls is FALSE when none is made.      *)
LogCall(calls, slave_id, operation, start_register, quantity, register_values) ==
  [calls |-> calls, slave_id |-> slave_id, operation |-> operation,
   start_register |-> start_register, quantity |-> quantity,
   register_values |-> register_values]

(* The log_data call, if any, that accepting the frame makes.              *)
LogArgs(d, md, f, t) ==
  LET unitIdentifier == Rd(md, f)
      functionCode == Rd(md, f + 1)
      key == <<unitIdentifier, functionCode>>
  IN IF ~d.csv_logger.present THEN LogCall(FALSE, NA, <<>>, NA, NA, <<>>)
     ELSE IF t.responce /\ functionCode \in {3, 4} /\ key \in DOMAIN d.pendingRequests
     THEN LET register_values == Words(Slice(md, f + 3, f + 3 + Rd(md, f + 2)))
          IN LogCall(TRUE, unitIdentifier, <<"READ">>, d.pendingRequests[key][1],
                     Len(register_values), register_values)
     ELSE IF t.request /\ functionCode = 6
     THEN LogCall(TRUE, unitIdentifier, <<"WRITE">>, U16(md, f + 2), 1,
                  <<U16(md, f + 4)>>)
     ELSE IF t.request /\ functionCode = 16
     THEN LogCall(TRUE, unitIdentifier, <<"WRITE">>, U16(md, f + 2), U16(md, f + 4),
                  Words(Slice(md, f + 7, f + 7 + Rd(md, f + 6))))
     ELSE LogCall(FALSE, NA, <<>>, NA, NA, <<>>)

(* The logger after the log_data call, if any, of the accepted frame.      *)
LogAccepted(d, md, f, t, day) ==
  LET a == LogArgs(d, md, f, t)
  IN IF a.calls
     THEN log_data(d.csv_logger, IsoFormat(day), a.slave_id, a.operation,
                   a.start_register, a.quantity, a.register_values, day)
     ELSE d.csv_logger

(* The log_data call of the accepted frame raises.                         *)
LogRaises(d, t) ==
  /\ log_data_raises(d.csv_logger)
  /\ LogArgs(d, d.modbusdata, d.bufferIndex, t).calls

(* The map update that also drops the entry of a request answered by an    *)
(* exception.                                                              *)
PendingAcceptedPopsOnException(d, md, f, t, day) ==
  LET functionCode == Rd(md, f + 1)
      key == <<Rd(md, f), functionCode>>
  IN IF functionCode \in {3, 4} /\ t.request
     THEN StorePending(d.pendingRequests, key,
                       <<U16(md, f + 2), U16(md, f + 4), IsoFormat(day)>>)
     ELSE IF functionCode \in {3, 4} /\ t.responce
     THEN PopPending(d.pendingRequests, key)
     ELSE IF t.error
     THEN PopPending(d.pendingRequests, <<Rd(md, f), functionCode - 128>>)
     ELSE d.pendingRequests

(* The map update that remembers the requests of all four read codes.      *)
PendingAcceptedAllReads(d, md, f, t, day) ==
  LET functionCode == Rd(md, f + 1)
      key == <<Rd(md, f), functionCode>>
  IN IF functionCode \in {1, 2, 3, 4} /\ t.request
     THEN StorePending(d.pendingRequests, key,
                       <<U16(md, f + 2), U16(md, f + 4), IsoFormat(day)>>)
     ELSE IF functionCode \in {1, 2, 3, 4} /\ t.responce
     THEN PopPending(d.pendingRequests, key)
     ELSE d.pendingRequests

(* The pending-request map after accepting the frame.                      *)
PendingAccepted(d, md, f, t, day) ==
  LET functionCode == Rd(md, f + 1)
      key == <<Rd(md, f), functionCode>>
  IN IF functionCode \in {3, 4} /\ t.request
     THEN StorePending(d.pendingRequests, key,
                       <<U16(md, f + 2), U16(md, f + 4), IsoFormat(day)>>)
     ELSE IF functionCode \in {3, 4} /\ t.responce
     THEN PopPending(d.pendingRequests, key)
     ELSE d.pendingRequests

(* Accepting a frame and leaving its last byte in the buffer.               *)
AcceptKeepsLastByte(d, t, day) ==
  LET md == d.modbusdata
      f == d.bufferIndex
      bytes == Slice(md, f, t.end)
  IN [d EXCEPT
        !.log = @ \o (IF d.raw_log THEN <<RawLine(bytes)>> ELSE <<>>)
                  \o (IF d.trashdata THEN <<IgnoringLine(d.trashdataf)>> ELSE <<>>)
                  \o <<FrameLine(md, f, t)>>,
        !.trashdata = FALSE,
        !.parsed_frames = IF AssignsParsedFrame(md, f, t)
                          THEN <<ParsedFrame(md, f, t)>> ELSE @,
        !.pendingRequests = PendingAccepted(d, md, f, t, day),
        !.csv_logger = LogAccepted(d, md, f, t, day),
        !.frames = Append(@, bytes),
        !.modbusdata = From(md, t.end - 1),
        !.bufferIndex = 0]

(* A frame was accepted: log the raw bytes if asked, close and log the     *)
(* open noise line, log the frame, build parsed_frames, update the         *)
(* pending map, log to CSV, drop the frame from the buffer.                *)
Accept(d, t, day) ==
  LET md == d.modbusdata
      f == d.bufferIndex
      bytes == Slice(md, f, t.end)
  IN [d EXCEPT
        !.log = @ \o (IF d.raw_log THEN <<RawLine(bytes)>> ELSE <<>>)
                  \o (IF d.trashdata THEN <<IgnoringLine(d.trashdataf)>> ELSE <<>>)
                  \o <<FrameLine(md, f, t)>>,
        !.trashdata = FALSE,
        !.parsed_frames = IF AssignsParsedFrame(md, f, t)
                          THEN <<ParsedFrame(md, f, t)>> ELSE @,
        !.pendingRequests = PendingAccepted(d, md, f, t, day),
        !.csv_logger = LogAccepted(d, md, f, t, day),
        !.frames = Append(@, bytes),
        !.modbusdata = From(md, t.end),
        !.bufferIndex = 0]

(* A frame was accepted and its log_data call raised: the lines are       *)
(* logged and the pending map is updated, the exception leaves             *)
(* decodeModbus before the frame is dropped from the buffer.               *)
Raise(d, t, day) ==
  LET md == d.modbusdata
      f == d.bufferIndex
      a == LogArgs(d, md, f, t)
  IN [d EXCEPT
        !.log = @ \o (IF d.raw_log THEN <<RawLine(Slice(md, f, t.end))>> ELSE <<>>)
                  \o (IF d.trashdata THEN <<IgnoringLine(d.trashdataf)>> ELSE <<>>)
                  \o <<FrameLine(md, f, t)>>,
        !.trashdata = FALSE,
        !.pendingRequests = PendingAccepted(d, md, f, t, day),
        !.csv_logger = log_data_failed(d.csv_logger, a.slave_id, a.start_register,
                                       a.quantity, day),
        !.raised = TRUE,
        !.returned = TRUE]

(* if self.on_parsed: if parsed_frames: self.on_parsed(parsed_frames)      *)
Dispatch(d) ==
  IF d.parsed_frames # <<>>
  THEN [d EXCEPT !.on_parsed = @ \o d.parsed_frames]
  ELSE d

(* The noise tail opening a new noise line at every discarded byte.        *)
DiscardOpensLine(d) ==
  [d EXCEPT
     !.trashdataf = <<Rd(d.modbusdata, d.bufferIndex)>>,
     !.trashdata = TRUE,
     !.noise = Append(@, Rd(d.modbusdata, d.bufferIndex)),
     !.modbusdata = From(d.modbusdata, d.bufferIndex + 1),
     !.bufferIndex = 0]

(* The noise tail that opens the noise line without dropping the byte.    *)
DiscardAfterOpening(d) ==
  IF d.trashdata
  THEN [d EXCEPT
          !.trashdataf = Append(@, Rd(d.modbusdata, d.bufferIndex)),
          !.noise = Append(@, Rd(d.modbusdata, d.bufferIndex)),
          !.modbusdata = From(d.modbusdata, d.bufferIndex + 1),
          !.bufferIndex = 0]
  ELSE [d EXCEPT !.trashdata = TRUE, !.trashdataf = <<>>]

(* The noise tail that drops the unit id and the function code.            *)
DiscardTwo(d) ==
  [d EXCEPT
     !.trashdataf = IF d.trashdata THEN Append(@, Rd(d.modbusdata, d.bufferIndex))
                    ELSE <<Rd(d.modbusdata, d.bufferIndex)>>,
     !.trashdata = TRUE,
     !.noise = Append(@, Rd(d.modbusdata, d.bufferIndex)),
     !.modbusdata = From(d.modbusdata, d.bufferIndex + 2),
     !.bufferIndex = 0]

(* No layout was accepted and none asked for more data: the leading byte   *)
(* joins the noise line and is dropped.                                    *)
Discard(d) ==
  LET md == d.modbusdata
      f == d.bufferIndex
  IN [d EXCEPT
        !.trashdataf = IF d.trashdata THEN Append(@, Rd(md, f)) ELSE <<Rd(md, f)>>,
        !.trashdata = TRUE,
        !.noise = Append(@, Rd(md, f)),
        !.modbusdata = From(md, f + 1),
        !.bufferIndex = 0]

(* The end of an iteration that drops the leading byte before it returns   *)
(* on needMoreData.                                                        *)
EndIterationDropsWaiting(p, t) ==
  IF t.needMoreData THEN [Discard(p) EXCEPT !.returned = TRUE]
  ELSE IF ~(t.request \/ t.responce \/ t.error) THEN Discard(p)
  ELSE p

(* The end of an iteration: return on needMoreData, else discard a byte    *)
(* when no layout was accepted, else go round again.                       *)
EndIteration(p, t) ==
  IF t.needMoreData THEN [p EXCEPT !.returned = TRUE]
  ELSE IF ~(t.request \/ t.responce \/ t.error) THEN Discard(p)
  ELSE p

(* The iteration of decoder n whose layout attempts gave t.                *)
Step(n, t, day) ==
  IF t.hi >= Len(n.modbusdata)
  THEN [n EXCEPT !.oob = TRUE, !.returned = TRUE]
  ELSE IF (t.request \/ t.responce \/ t.error) /\ LogRaises(n, t)
  THEN Raise(n, t, day)
  ELSE EndIteration(Dispatch(IF t.request \/ t.responce \/ t.error
                      THEN Accept(n, t, day) ELSE n), t)

(* One iteration of `while True`.                                          *)
Iteration(d, day) ==
  Step([d EXCEPT !.iterations = @ + 1], Classify(d.modbusdata, d.bufferIndex), day)

(* Up to n iterations of `while True`, stopping at the return.  The count  *)
(* is halved rather than walked, which keeps the evaluation of a call on   *)
(* a long buffer shallow.                                                  *)
RECURSIVE Iterations(_, _, _)
Iterations(d, n, day) ==
  IF d.returned \/ n = 0 THEN d
  ELSE IF n = 1 THEN Iteration(d, day)
  ELSE Iterations(Iterations(d, n \div 2, day), n - (n \div 2), day)

(* `while True`: iterations, sixteen at a time, until one returns.         *)
RECURSIVE RunLoop(_, _)
RunLoop(d, day) ==
  IF d.returned THEN d ELSE RunLoop(Iterations(d, 16, day), day)

(* decodeModbus(data) called on the sniffer S: the decoder at its return.  *)
decodeModbus(S, buf, day) ==
  RunLoop(Decoder(S, buf), day)

-----------------------------------------------------------------------------
(* SerialSnooper.  S is the object: its fields, and the output it has      *)
(* produced.                                                               *)

Sniffer ==
  [data |-> data, trashdata |-> trashdata, trashdataf |-> trashdataf,
   pendingRequests |-> pendingRequests, csv_logger |-> csv_logger,
   raw_log |-> config.raw_log, raw_only |-> config.raw_only,
   log |-> log, on_parsed |-> on_parsed, crashed |-> crashed, call |-> call]

NoCall ==
  [input |-> <<>>, before |-> <<>>, trashdata |-> FALSE, logged |-> 0, delivered |-> 0,
   remainder |-> <<>>, noise |-> <<>>, frames |-> <<>>, iterations |-> 0,
   pending |-> <<>>, raised |-> FALSE, discarded |-> <<>>]

(* self.data = self.decodeModbus(self.data), d being the decoder at its     *)
(* return.  call records the call: its argument, the argument of the call  *)
(* before it, the object's state when it was made and what it did, and the *)
(* noise bytes that this call and the calls before it discarded.           *)
Decoded(S, d) ==
  [S EXCEPT
     !.data = IF d.oob \/ d.raised THEN S.data ELSE d.modbusdata,
     !.trashdata = d.trashdata,
     !.trashdataf = d.trashdataf,
     !.pendingRequests = d.pendingRequests,
     !.csv_logger = d.csv_logger,
     !.log = d.log,
     !.on_parsed = d.on_parsed,
     !.crashed = d.oob \/ d.raised,
     !.call = [input |-> S.data, before |-> S.call.input,
               trashdata |-> S.trashdata, logged |-> Len(S.log),
               delivered |-> Len(S.on_parsed),
               remainder |-> d.modbusdata, noise |-> d.noise,
               frames |-> d.frames, iterations |-> d.iterations,
               pending |-> S.pendingRequests, raised |-> d.raised,
               discarded |-> S.call.discarded \o d.noise]]

(* process_data putting the new bytes in front of the buffer.              *)
process_data_prepending(S, chunk, day) ==
  IF S.raw_only /\ Len(chunk) > 0
  THEN [S EXCEPT !.log = Append(@, RawLine(chunk))]
  ELSE IF Len(chunk) <= 0
  THEN IF Len(S.data) > 2
       THEN Decoded(S, decodeModbus(S, S.data, day))
       ELSE S
  ELSE [S EXCEPT !.data = chunk \o @]

(* process_data decoding as soon as bytes arrive, without waiting for the   *)
(* silence signal.                                                         *)
process_data_decoding_at_once(S, chunk, day) ==
  IF S.raw_only /\ Len(chunk) > 0
  THEN [S EXCEPT !.log = Append(@, RawLine(chunk))]
  ELSE IF Len(S.data \o chunk) > 2
  THEN Decoded([S EXCEPT !.data = @ \o chunk],
               decodeModbus(S, S.data \o chunk, day))
  ELSE [S EXCEPT !.data = @ \o chunk]

(* process_data(data)                                                      *)
process_data(S, chunk, day) ==
  IF S.raw_only /\ Len(chunk) > 0
  THEN [S EXCEPT !.log = Append(@, RawLine(chunk))]
  ELSE IF Len(chunk) <= 0
  THEN IF Len(S.data) > 2
       THEN Decoded(S, decodeModbus(S, S.data, day))
       ELSE S
  ELSE [S EXCEPT !.data = @ \o chunk]

Apply(S) ==
  /\ data' = S.data
  /\ trashdata' = S.trashdata
  /\ trashdataf' = S.trashdataf
  /\ pendingRequests' = S.pendingRequests
  /\ csv_logger' = S.csv_logger
  /\ log' = S.log
  /\ on_parsed' = S.on_parsed
  /\ crashed' = S.crashed
  /\ call' = S.call

-----------------------------------------------------------------------------
(* The bus.  wire holds the bursts of bytes still to arrive.  read_raw     *)
(* hands process_data the bytes that arrived, or nothing when the          *)
(* inter-frame timeout passed in silence.                                  *)

Receive ==
  /\ ~crashed
  /\ ~closed
  /\ wire # <<>>
  /\ \E S \in {process_data(Sniffer, Head(wire), today)} : Apply(S)
  /\ wire' = Tail(wire)
  /\ rx' = rx \o Head(wire)
  /\ quiet' = FALSE
  /\ UNCHANGED <<config, today, closed, gui>>

Silence ==
  /\ ~crashed
  /\ ~closed
  /\ \E S \in {process_data(Sniffer, <<>>, today)} : Apply(S)
  /\ quiet' = TRUE
  /\ UNCHANGED <<config, wire, rx, today, closed, gui>>

(* The disk fills up or the file is taken away: from now on the logger's  *)
(* file operations fail.                                                   *)
DiskFails ==
  /\ ~crashed
  /\ csv_logger.enable_csv
  /\ ~csv_logger.broken
  /\ csv_logger' = [csv_logger EXCEPT !.broken = TRUE]
  /\ UNCHANGED <<data, trashdata, trashdataf, pendingRequests, config, log,
                 on_parsed, crashed, wire, rx, quiet, today, call, closed, gui>>

Midnight ==
  /\ today < MaxDay
  /\ today' = today + 1
  /\ UNCHANGED <<data, trashdata, trashdataf, pendingRequests, csv_logger, config,
                 log, on_parsed, crashed, wire, rx, quiet, call, closed, gui>>

(* The stream has ended and the `with` block is left: close() closes the   *)
(* connection and the CSV file.                                            *)
Close ==
  /\ ~closed
  /\ wire = <<>>
  /\ closed' = TRUE
  /\ csv_logger' = IF csv_logger.present
                   THEN [csv_logger EXCEPT !.csv_file = 0]
                   ELSE csv_logger
  /\ UNCHANGED <<data, trashdata, trashdataf, pendingRequests, config, log,
                 on_parsed, crashed, wire, rx, quiet, today, call, gui>>

-----------------------------------------------------------------------------
(* Frames on the wire.  A frame is built as a Modbus master or slave       *)
(* builds it: the body followed by the CRC-16 (polynomial 0xA001, initial  *)
(* value 0xFFFF), low byte first.                                          *)

RECURSIVE CrcShift(_, _)
CrcShift(c, k) ==
  IF k = 0 THEN c
  ELSE IF c % 2 = 1 THEN CrcShift(XorBits(c \div 2, 40961, 16), k - 1)
  ELSE CrcShift(c \div 2, k - 1)

RECURSIVE CrcFold(_, _, _)
CrcFold(bytes, i, c) ==
  IF i > Len(bytes) THEN c
  ELSE CrcFold(bytes, i + 1, CrcShift(XorBits(c, bytes[i], 16), 8))

Crc16(bytes) ==
  CrcFold(bytes, 1, 65535)

Framed(body) ==
  LET c == Crc16(body) IN body \o <<c % 256, c \div 256>>

Hi(v) ==
  v \div 256

Lo(v) ==
  v % 256

(* id, fc, addr(2), qty or value(2)                                        *)
Body8(u, fc, address, quantity) ==
  <<u, fc, Hi(address), Lo(address), Hi(quantity), Lo(quantity)>>

Request8(u, fc, address, quantity) ==
  Framed(Body8(u, fc, address, quantity))

(* id, fc, addr(2), qty(2), count(1), data(count)                          *)
BodyN(u, fc, address, quantity, bytes) ==
  <<u, fc, Hi(address), Lo(address), Hi(quantity), Lo(quantity), Len(bytes)>> \o bytes

RequestN(u, fc, address, quantity, bytes) ==
  Framed(BodyN(u, fc, address, quantity, bytes))

(* id, 23, raddr(2), rqty(2), waddr(2), wqty(2), wcount(1), wdata          *)
Body23(u, raddress, rquantity, waddress, wquantity, bytes) ==
  <<u, 23, Hi(raddress), Lo(raddress), Hi(rquantity), Lo(rquantity),
    Hi(waddress), Lo(waddress), Hi(wquantity), Lo(wquantity), Len(bytes)>> \o bytes

Request23(u, raddress, rquantity, waddress, wquantity, bytes) ==
  Framed(Body23(u, raddress, rquantity, waddress, wquantity, bytes))

(* F is the frame with this body: the body followed by its CRC.            *)
IsFrame(F, body) ==
  /\ Len(F) = Len(body) + 2
  /\ SubSeq(F, 1, Len(body)) = body
  /\ F = Framed(body)

(* id, fc, count(1), data(count), crc(2)                                   *)
ResponseN(u, fc, bytes) ==
  Framed(<<u, fc, Len(bytes)>> \o bytes)

(* id, fc + 128, exception code, crc(2)                                    *)
ExceptionReply(u, fc, code) ==
  Framed(<<u, fc + 128, code>>)

-----------------------------------------------------------------------------
(* The inputs the model is run on.                                         *)

Units ==
  {1, 17}

Addresses ==
  {100, 258}

Quantities ==
  {1, 2}

(* n data bytes: the registers 10, 20, 30, ... high byte first.            *)
Payload(n) ==
  [k \in 1..n |-> IF k % 2 = 1 THEN 0 ELSE 5 * k]

RequestFrames ==
  {Request8(u, fc, a, q) :
     u \in Units, fc \in {1, 2, 3, 4, 5, 6}, a \in Addresses, q \in Quantities}
  \cup {RequestN(u, fc, a, q, Payload(n)) :
          u \in Units, fc \in {15, 16}, a \in Addresses, q \in Quantities,
          n \in 0..MaxCount}
  \cup {Request23(u, a, q, a + 1, q, Payload(n)) :
          u \in Units, a \in Addresses, q \in Quantities, n \in 0..MaxCount}

ResponseFrames ==
  {ResponseN(u, fc, Payload(n)) :
     u \in Units, fc \in {1, 2, 3, 4, 23}, n \in 0..MaxCount}
  \cup {Request8(u, fc, a, q) :
          u \in Units, fc \in {15, 16}, a \in Addresses, q \in Quantities}

ExceptionFrames ==
  {ExceptionReply(u, fc, 2) : u \in Units, fc \in {3, 6, 16}}

-----------------------------------------------------------------------------
(* The log view of the GUI.  Every line handed to log.info reaches          *)
(* GUIApp.update_log_window through the log handler and log_signal, in the  *)
(* order logged; gui.shown counts the lines delivered so far.  A colour is  *)
(* the name of the pastel colour of the span the entry is wrapped in, and   *)
(* "none" for an entry appended as it came.                                 *)

(* GUIApp.__init__.                                                        *)
GUIApp ==
  [last_master |-> "None", last_ok_color |-> "blue", shown |-> 0,
   log_window |-> <<>>]

(* "Master" in log_entry, "Slave" in log_entry: the decoder's lines start   *)
(* with one of the two words, and no other line holds either.              *)
Mentions(log_entry, word) ==
  log_entry.who = word

(* A variant that lets an unanswered request count as answered once it was *)
(* shown in red.                                                           *)
update_log_window_red_once(G, log_entry) ==
  IF Mentions(log_entry, "Master")
  THEN IF G.last_master = "no response"
       THEN [G EXCEPT !.last_master = "answered",
                      !.log_window = Append(@, [entry |-> log_entry,
                                                colour |-> "red"])]
       ELSE IF G.last_ok_color = "blue"
            THEN [G EXCEPT !.last_ok_color = "green",
                           !.last_master = "no response",
                           !.log_window = Append(@, [entry |-> log_entry,
                                                     colour |-> "green"])]
            ELSE [G EXCEPT !.last_ok_color = "blue",
                           !.last_master = "no response",
                           !.log_window = Append(@, [entry |-> log_entry,
                                                     colour |-> "blue"])]
  ELSE IF Mentions(log_entry, "Slave")
       THEN [G EXCEPT !.last_master = "answered",
                      !.log_window = Append(@, [entry |-> log_entry,
                                                colour |-> G.last_ok_color])]
       ELSE [G EXCEPT !.log_window = Append(@, [entry |-> log_entry,
                                                colour |-> "none"])]

(* GUIApp.update_log_window.                                               *)
update_log_window(G, log_entry) ==
  IF Mentions(log_entry, "Master")
  THEN IF G.last_master = "no response"
       THEN [G EXCEPT !.log_window = Append(@, [entry |-> log_entry,
                                                colour |-> "red"])]
       ELSE IF G.last_ok_color = "blue"
            THEN [G EXCEPT !.last_ok_color = "green",
                           !.last_master = "no response",
                           !.log_window = Append(@, [entry |-> log_entry,
                                                     colour |-> "green"])]
            ELSE [G EXCEPT !.last_ok_color = "blue",
                           !.last_master = "no response",
                           !.log_window = Append(@, [entry |-> log_entry,
                                                     colour |-> "blue"])]
  ELSE IF Mentions(log_entry, "Slave")
       THEN [G EXCEPT !.last_master = "answered",
                      !.log_window = Append(@, [entry |-> log_entry,
                                                colour |-> IF G.last_ok_color = "blue"
                                                           THEN "blue"
                                                           ELSE "green"])]
       ELSE [G EXCEPT !.log_window = Append(@, [entry |-> log_entry,
                                                colour |-> "none"])]

(* The GUI thread runs the slot for the oldest line not yet shown.         *)
ShowLine ==
  /\ gui.shown < Len(log)
  /\ gui' = [update_log_window(gui, log[gui.shown + 1])
             EXCEPT !.shown = gui.shown + 1]
  /\ UNCHANGED <<data, trashdata, trashdataf, pendingRequests, csv_logger,
                 config, log, on_parsed, crashed, wire, rx, quiet, today,
                 call, closed>>

(* The request of the specification's example scenario, as printed there.  *)
ExampleRequest ==
  <<1, 3, 0, 100, 0, 2, 197, 203>>

Fresh(csv_log, daily_file, raw_log, raw_only) ==
  /\ data = <<>>
  /\ trashdata = FALSE
  /\ trashdataf = <<>>
  /\ pendingRequests = <<>>
  /\ today = 0
  /\ csv_logger = IF csv_log THEN NewLogger(TRUE, daily_file, 0) ELSE NoLogger
  /\ config = [raw_log |-> raw_log, raw_only |-> raw_only]
  /\ log = <<>>
  /\ on_parsed = <<>>
  /\ crashed = FALSE
  /\ rx = <<>>
  /\ quiet = FALSE
  /\ call = NoCall
  /\ closed = FALSE
  /\ gui = GUIApp

(* A read request whose first seven bytes hold a complete response with    *)
(* byte count 0: 03 04 00 83 00 01 C1 C0, and C0C1 is the CRC of 03 04 00. *)
CollidingRequest ==
  Request8(3, 4, 131, 1)

FramesOnWire ==
  RequestFrames \cup ResponseFrames \cup ExceptionFrames
    \cup {ExampleRequest, CollidingRequest}

(* The ways a frame arrives: in one burst, or cut in two.                   *)
Bursts(F) ==
  {<<F>>} \cup {<<SubSeq(F, 1, k), SubSeq(F, k + 1, Len(F))>> : k \in 1..(Len(F) - 1)}

(* One frame on the wire.                                                  *)
InitFrame ==
  /\ Fresh(FALSE, FALSE, FALSE, FALSE)
  /\ wire \in UNION {Bursts(F) : F \in FramesOnWire}

NextBus ==
  Receive \/ Silence

SpecFrame ==
  InitFrame /\ [][NextBus]_vars

-----------------------------------------------------------------------------
(* What a decodeModbus call did.                                           *)

(* decodeModbus was called on a buffer holding exactly F, by a sniffer     *)
(* that had decoded nothing before.                                        *)
FirstCall(F) ==
  /\ call.logged = 0
  /\ call.delivered = 0
  /\ ~call.trashdata
  /\ call.pending = <<>>
  /\ call.input = F

(* The lines the last decodeModbus call logged.                            *)
Emitted ==
  SubSeq(log, call.logged + 1, Len(log))

(* The events the last decodeModbus call handed to on_parsed.              *)
Delivered ==
  SubSeq(on_parsed, call.delivered + 1, Len(on_parsed))

(* The call on F accepted F as one request frame of unit u, function code  *)
(* fc, address a and quantity (for FC5 and FC6: value) q, and nothing else.*)
OneRequest(F, u, fc, a, q) ==
  /\ call.frames = <<F>>
  /\ call.noise = <<>>
  /\ call.remainder = <<>>
  /\ Len(Emitted) = 1
  /\ Emitted[1].who = "Master"
  /\ Emitted[1].kind = "request"
  /\ Emitted[1].id = u
  /\ Emitted[1].fc = fc
  /\ Emitted[1].address = a
  /\ IF fc \in {5, 6} THEN Emitted[1].values = <<q>> ELSE Emitted[1].quantity = q
  /\ \A i \in DOMAIN Delivered :
       /\ Delivered[i].message_type = "request"
       /\ Delivered[i].slave_id = u
       /\ Delivered[i].function = fc

(* Every request frame of the input sets whose byte count is at least      *)
(* min15 (FC15), min16 (FC16), min23 (FC23) decodes to one Request event.  *)
RequestRoundTrip(min15, min16, min23) ==
  FirstCall(call.input) =>
    \A u \in Units, a \in Addresses, q \in Quantities :
      /\ \A fc \in {1, 2, 3, 4, 5, 6} :
           IsFrame(call.input, Body8(u, fc, a, q))
             => OneRequest(call.input, u, fc, a, q)
      /\ \A n \in 0..MaxCount :
           /\ (n >= min15 /\ IsFrame(call.input, BodyN(u, 15, a, q, Payload(n))))
                => OneRequest(call.input, u, 15, a, q)
           /\ (n >= min16 /\ IsFrame(call.input, BodyN(u, 16, a, q, Payload(n))))
                => OneRequest(call.input, u, 16, a, q)
           /\ (n >= min23
                 /\ IsFrame(call.input, Body23(u, a, q, a + 1, q, Payload(n))))
                => (/\ OneRequest(call.input, u, 23, a, q)
                    /\ Emitted[1].waddress = a + 1
                    /\ Emitted[1].wquantity = q)

(* C1, as claimed: for every function code in {1,2,3,4,5,6,15,16,23},      *)
(* every unit id, address and quantity and, for 15, 16 and 23, every byte  *)
(* count n followed by n data bytes, decodeModbus on a buffer holding      *)
(* exactly that request frame with a correct CRC yields exactly one        *)
(* Request event with those fields and returns an empty remainder.         *)
C1_EveryByteCount ==
  RequestRoundTrip(0, 0, 0)

(* C1, amended: the same, for byte counts n >= 1 of function code 15 and   *)
(* n >= 2 of function codes 16 and 23.  (A request with a smaller byte     *)
(* count is shorter than the 10, 11 and 15 bytes the decoder waits for     *)
(* before it reads the byte count: it stays in the buffer undecoded.)      *)
C1_RequestRoundTrip ==
  RequestRoundTrip(1, 2, 2)

(* C1's case: a Write Multiple registers request with MaxCount data bytes  *)
(* was decoded in the first call.                                          *)
C1_Witness ==
  /\ FirstCall(RequestN(17, 16, 258, 2, Payload(MaxCount)))
  /\ call.frames = <<call.input>>
  /\ Len(log) = 1

(* The example request with the CRC that calcCRC16 computes over           *)
(* 01 03 00 64 00 02, which is 0x85D4.                                     *)
ExampleCorrected ==
  <<1, 3, 0, 100, 0, 2, 133, 212>>

(* C6, as claimed: decoding 01 03 00 64 00 02 C5 CB yields exactly one     *)
(* Request event with unit 1, function code 3, address 100, quantity 2,    *)
(* and an empty remainder.                                                 *)
C6_ExampleAsPrinted ==
  FirstCall(ExampleRequest) => OneRequest(ExampleRequest, 1, 3, 100, 2)

(* C6, amended: decoding 01 03 00 64 00 02 85 D4 yields exactly one        *)
(* Request event with unit 1, function code 3, address 100, quantity 2,    *)
(* and an empty remainder; the bytes C5 CB do not pass the CRC check over  *)
(* 01 03 00 64 00 02, and the buffer that ends in them yields no event.    *)
C6_Example ==
  /\ FirstCall(ExampleCorrected) => OneRequest(ExampleCorrected, 1, 3, 100, 2)
  /\ calcCRC16(ExampleRequest, 6) # (197 * 256) + 203
  /\ FirstCall(ExampleRequest) => (call.frames = <<>> /\ Emitted = <<>>)

(* C6's case: the example request, with its CRC, was decoded.              *)
C6_Witness ==
  /\ FirstCall(ExampleCorrected)
  /\ call.frames = <<ExampleCorrected>>
  /\ pendingRequests = (<<1, 3>> :> <<100, 2, IsoFormat(0)>>)

-----------------------------------------------------------------------------
(* Delivery in pieces.                                                     *)

(* The sniffer as constructed, before any byte arrived.                    *)
FreshSniffer ==
  [data |-> <<>>, trashdata |-> FALSE, trashdataf |-> <<>>,
   pendingRequests |-> <<>>, csv_logger |-> NoLogger, raw_log |-> FALSE,
   raw_only |-> FALSE, log |-> <<>>, on_parsed |-> <<>>, crashed |-> FALSE,
   call |-> NoCall]

(* The sniffer after F arrived in one burst and one silence signal.        *)
InOneBurst(F) ==
  process_data(process_data(FreshSniffer, F, 0), <<>>, 0)

(* The events and the buffer are those of delivery in one burst.           *)
SameAsInOneBurst(W) ==
  /\ log = W.log
  /\ on_parsed = W.on_parsed
  /\ data = W.data

(* F ends in the CRC of the bytes before it.                               *)
CrcValid(F) ==
  /\ Len(F) >= 4
  /\ F = Framed(SubSeq(F, 1, Len(F) - 2))

(* Some proper prefix of F that the decoder can be called on begins with   *)
(* a complete frame whose CRC matches.                                     *)
FrameInPrefix(F) ==
  \E k \in 3..(Len(F) - 1) :
    \E t \in {Classify(SubSeq(F, 1, k), 0)} : t.request \/ t.responce \/ t.error

(* The whole frame has arrived and a silence signal followed it.           *)
Arrived(F) ==
  /\ wire = <<>>
  /\ quiet
  /\ rx = F

(* C3, as claimed: for every CRC-valid frame F and every split F = A ++ B  *)
(* with A non-empty and incomplete, delivering A, a silence signal, B, a   *)
(* silence signal through process_data produces the same events and the   *)
(* same final buffer as delivering F followed by one silence signal.       *)
C3_EverySplit ==
  (Arrived(rx) /\ CrcValid(rx)) => SameAsInOneBurst(InOneBurst(rx))

(* C3, amended: the same, for every CRC-valid frame F of a supported       *)
(* layout no proper prefix of which begins with a complete frame whose     *)
(* CRC matches.  (The prefix 03 04 00 83 00 01 C1 of the request           *)
(* 03 04 00 83 00 01 C1 C0 holds the response 03 04 00 83 00: a silence    *)
(* signal after it makes the decoder accept that response.)                *)
C3_SplitDelivery ==
  (Arrived(rx) /\ CrcValid(rx) /\ ~FrameInPrefix(rx))
    => SameAsInOneBurst(InOneBurst(rx))

(* C3's case: a Write Single Register request arrived as 5 bytes, a        *)
(* silence signal (the decoder ran on the 5 bytes), 3 bytes, a silence     *)
(* signal, and was decoded.                                                *)
C3_Witness ==
  /\ Arrived(Request8(1, 6, 100, 2))
  /\ call.before = SubSeq(rx, 1, 5)
  /\ call.input = rx
  /\ call.frames = <<rx>>
  /\ Len(log) = 1

-----------------------------------------------------------------------------
(* Junk in front of a frame.                                               *)

JunkBytes ==
  {85, 200}

JunkRuns ==
  UNION {[1..n -> JunkBytes] : n \in 1..MaxJunk}

(* A run of junk bytes and one frame, in one burst.                        *)
InitNoise ==
  /\ Fresh(FALSE, FALSE, FALSE, FALSE)
  /\ wire \in {<<junk \o F>> :
                 junk \in JunkRuns,
                 F \in RequestFrames \cup ResponseFrames \cup ExceptionFrames}

SpecNoise ==
  InitNoise /\ [][NextBus]_vars

(* The first j bytes of buf are the junk, the frame starts after them.     *)
JunkRun(buf, j) ==
  /\ Len(buf) > j
  /\ \A i \in 1..j : buf[i] \in JunkBytes
  /\ buf[j + 1] \notin JunkBytes

(* The decoder at its return, given F alone in the buffer of a fresh       *)
(* sniffer.                                                                *)
Alone(F) ==
  decodeModbus(FreshSniffer, F, 0)

(* At index i, buf begins a complete frame whose CRC matches.              *)
BeginsFrame(buf, i) ==
  \E t \in {Classify(From(buf, i), 0)} : t.request \/ t.responce \/ t.error

(* At index i, a layout tried on buf asks for more data.                   *)
AsksForMore(buf, i) ==
  \E t \in {Classify(From(buf, i), 0)} : t.needMoreData

(* The call logged one noise line listing the j junk bytes, then decoded   *)
(* the frame as it decodes alone, and returned an empty remainder.         *)
NoiseThenFrame(j) ==
  /\ call.noise = SubSeq(call.input, 1, j)
  /\ call.frames = <<From(call.input, j)>>
  /\ call.remainder = <<>>
  /\ Emitted = <<IgnoringLine(SubSeq(call.input, 1, j))>>
                 \o Alone(From(call.input, j)).log
  /\ Len(Emitted) = 2

(* C2, as claimed: for any run of junk bytes that does not itself begin a  *)
(* CRC-valid frame, followed by one CRC-valid frame, a single decodeModbus *)
(* call on junk + frame emits exactly one 'Ignoring data' line listing     *)
(* exactly the junk bytes in order, then the decoded frame, and returns an *)
(* empty remainder.  (The frame is one that decodes when alone.)           *)
C2_AnyJunk ==
  \A j \in 1..MaxJunk :
    (/\ FirstCall(call.input)
     /\ JunkRun(call.input, j)
     /\ Alone(From(call.input, j)).frames = <<From(call.input, j)>>
     /\ \A i \in 0..(j - 1) : ~BeginsFrame(call.input, i))
      => NoiseThenFrame(j)

(* C2, amended: the same, for a run of junk bytes at none of whose         *)
(* positions the buffer begins a CRC-valid frame or a layout that asks for *)
(* more data than the buffer holds, and for a frame that decodes when it   *)
(* is alone in the buffer.  (After the junk byte 55 the frame              *)
(* 01 05 00 64 00 01 .. reads as a Read Coils response of unit 0x55 with   *)
(* byte count 5: the decoder waits for its tenth byte and returns the      *)
(* whole buffer.)                                                          *)
C2_JunkThenFrame ==
  \A j \in 1..MaxJunk :
    (/\ FirstCall(call.input)
     /\ JunkRun(call.input, j)
     /\ Alone(From(call.input, j)).frames = <<From(call.input, j)>>
     /\ \A i \in 0..(j - 1) :
          ~BeginsFrame(call.input, i) /\ ~AsksForMore(call.input, i))
      => NoiseThenFrame(j)

(* C2's case: two junk bytes and a Read Holding Registers response were    *)
(* decoded in one call.                                                    *)
C2_Witness ==
  /\ FirstCall(<<85, 200>> \o ResponseN(17, 3, Payload(4)))
  /\ call.noise = <<85, 200>>
  /\ Len(log) = 2
  /\ log[1] = IgnoringLine(<<85, 200>>)
  /\ log[2].who = "Slave"

-----------------------------------------------------------------------------
(* Damaged input: frames with one bit flipped, frames cut short, and       *)
(* arbitrary short byte strings.                                           *)

(* F with bit k flipped, bit 0 being the lowest bit of the first byte.     *)
FlipBit(F, k) ==
  [i \in 1..Len(F) |->
     IF i = (k \div 8) + 1 THEN Xor8(F[i], 2 ^ (k % 8)) ELSE F[i]]

(* The frames that are damaged: one of each layout and byte count.         *)
FramesToDamage ==
  {Request8(1, fc, 100, 2) : fc \in {1, 2, 3, 4, 5, 6, 15, 16}}
  \cup {RequestN(1, fc, 100, 2, Payload(n)) : fc \in {15, 16}, n \in 0..MaxCount}
  \cup {Request23(1, 100, 2, 101, 2, Payload(n)) : n \in 0..MaxCount}
  \cup {ResponseN(1, fc, Payload(n)) : fc \in {1, 3, 23}, n \in 0..MaxCount}
  \cup {Framed(<<1, 5, 0, 100>>)}
  \cup {ExceptionReply(1, fc, 2) : fc \in {3, 16}}

Flipped ==
  UNION {{FlipBit(F, k) : k \in 0..((8 * Len(F)) - 1)} : F \in FramesToDamage}

Truncated ==
  UNION {{SubSeq(F, 1, n) : n \in 1..(Len(F) - 1)} : F \in FramesToDamage}

(* Bytes that read as a unit id, a function code (0 and 7 being codes the  *)
(* decoder does not handle) or a byte count.                               *)
SomeBytes ==
  {0, 1, 3, 5, 7, 16, 23, 131, 255}

ByteStrings ==
  UNION {[1..n -> SomeBytes] : n \in 1..MaxBytes}

(* One damaged input on the wire, in one burst.                            *)
InitDamaged ==
  /\ Fresh(FALSE, FALSE, FALSE, FALSE)
  /\ wire \in {<<G>> : G \in Flipped \cup Truncated \cup ByteStrings}

SpecDamaged ==
  InitDamaged /\ [][NextBus]_vars

(* G is one of the frames with one bit flipped.                            *)
OneBitFlipped(G) ==
  \E k \in 0..((8 * Len(G)) - 1) : FlipBit(G, k) \in FramesToDamage

C7_NoIndexError ==
  /\ ~crashed
  /\ ~csv_logger.present
  /\ \A i \in 0..Len(data) :
       \E t \in {Classify(From(data, i), 0)} : t.hi < Len(data) - i

(* C7's case: a Write Multiple registers request cut off inside its data   *)
(* bytes was decoded: the decoder read the byte count, found the buffer    *)
(* too short, and returned it.                                             *)
C7_Witness ==
  /\ call.iterations = 1
  /\ Len(call.input) = 12
  /\ call.input = SubSeq(RequestN(1, 16, 100, 2, Payload(4)), 1, 12)
  /\ call.remainder = call.input
  /\ data = call.input
  /\ ~crashed

-----------------------------------------------------------------------------
(* Bus traffic: up to MaxFrames frames, each arriving in one burst, decoded *)
(* by a sniffer that logs to CSV with a file per day.                      *)

Traffic ==
  {Request8(1, 3, 100, 2), ResponseN(1, 3, Payload(4)),
   Request8(1, 6, 101, 7), RequestN(1, 16, 102, 2, Payload(4)),
   Request8(1, 16, 102, 2), Request8(1, 15, 100, 8),
   ResponseN(1, 23, Payload(2)), ResponseN(17, 3, Payload(2)),
   RequestN(1, 16, 100, 2, Payload(4)), RequestN(1, 16, 104, 1, Payload(4))}

Init ==
  /\ Fresh(TRUE, TRUE, FALSE, FALSE)
  /\ wire \in UNION {[1..n -> Traffic] : n \in 1..MaxFrames}

Next ==
  Receive \/ Silence \/ Midnight

Spec ==
  Init /\ [][Next]_vars

(* Position k of the log lines the last call emitted is a response line of *)
(* unit u and function code fc.                                            *)
ResponseLineAt(k, u, fc) ==
  /\ Emitted[k].who = "Slave"
  /\ Emitted[k].id = u
  /\ Emitted[k].fc = fc

(* C5, as claimed: after an accepted FC3 request (unit u, address a,       *)
(* quantity q) followed by an accepted FC3 response from unit u, the       *)
(* Response event emitted for that response carries resolved starting      *)
(* address a, in the event handed to on_parsed or in the log line; an FC3  *)
(* response accepted while no entry for (u, 3) is pending yields a         *)
(* Response event whose address is unresolved.                             *)
C5_ResolvedAddress ==
  \A u \in Units :
    (/\ Len(call.frames) = 1
     /\ Len(Delivered) >= 1
     /\ Len(Emitted) = 1
     /\ ResponseLineAt(1, u, 3))
      => IF <<u, 3>> \in DOMAIN call.pending
         THEN \/ \E i \in DOMAIN Delivered :
                   Delivered[i].data_address = call.pending[<<u, 3>>][1]
              \/ Emitted[1].address = call.pending[<<u, 3>>][1]
         ELSE /\ \A i \in DOMAIN Delivered : Delivered[i].data_address = EmptyList
              /\ Emitted[1].address = NA

(* C8, as claimed: when decodeModbus returns, the returned remainder does  *)
(* not begin with a complete CRC-valid frame of any supported layout.      *)
C8_RemainderHasNoFrame ==
  call.iterations > 0 => ~BeginsFrame(call.remainder, 0)

(* The first line of the file is its only header line, and every row has   *)
(* as many cells as it.                                                    *)
Aligned(file) ==
  /\ Len(file) >= 1
  /\ \A r \in 2..Len(file) :
       /\ file[r] # file[1]
       /\ Len(file[r]) = Len(file[1])

(* C9: after every log_data call that returns (CSV enabled), including     *)
(* calls that grow the schema or rotate the file, the CSV file's first     *)
(* line is a header equal to the logger's current column list, it is the   *)
(* only header line in the file, and every data row has exactly as many    *)
(* cells as the header; the files closed by a rotation stay so aligned.    *)
C9_HeaderAndRows ==
  /\ csv_logger.enable_csv
  /\ csv_logger.csv_file = Len(csv_logger.files)
  /\ csv_logger.files[csv_logger.csv_file][1] = csv_logger.columns
  /\ \A k \in DOMAIN csv_logger.files : Aligned(csv_logger.files[k])

(* C9's case: a Write Single Register row was logged, then a Write         *)
(* Multiple registers row grew the schema by two columns: the file was     *)
(* rewritten and the earlier row padded to the six columns.                *)
C9_Witness ==
  /\ Len(csv_logger.files) = 1
  /\ Len(csv_logger.columns) = 6
  /\ Len(csv_logger.files[1]) = 3
  /\ csv_logger.files[1][2] =
       <<IsoFormat(0), Str(1), <<"WRITE">>, Str(7), <<>>, <<>>>>
  /\ csv_logger.files[1][3][5] = Str(10)

(* Column c of the file holds a value in some row.                         *)
Logged(file, c) ==
  \E r \in 2..Len(file) : c <= Len(file[r]) /\ file[r][c] # <<>>

(* C10, as claimed: when the calendar day differs from the one recorded at *)
(* the last file open, the next log_data call closes the current file and  *)
(* opens a new file whose header holds only the three fixed columns;       *)
(* register columns seen in the earlier file are not in the new header     *)
(* until those registers are logged again.                                 *)
C10_FreshHeader ==
  \A k \in 2..Len(csv_logger.files) :
    /\ SubSeq(csv_logger.files[k][1], 1, 3) = FixedColumns
    /\ \A c \in 4..Len(csv_logger.files[k][1]) : Logged(csv_logger.files[k], c)

-----------------------------------------------------------------------------
(* Rows of the CSV file.                                                   *)

(* The rows of the file `old` are in the file `new` in their order, each   *)
(* old cell under the column of the same name and an empty cell in every   *)
(* column the old header did not have.                                     *)
Remapped(old, new) ==
  /\ Len(new) > Len(old)
  /\ \A c \in 1..Len(old[1]) : new[1][c] = old[1][c]
  /\ \A r \in 2..Len(old) :
       /\ Len(new[r]) = Len(new[1])
       /\ \A c \in 1..Len(new[1]) :
            new[r][c] = IF c <= Len(old[1]) THEN old[r][c] ELSE <<>>

(* C11: whenever a log_data call adds columns, every previously written    *)
(* row is rewritten in its original order and number, with each old cell   *)
(* kept under the same column name and an empty cell in every newly added  *)
(* column.                                                                 *)
C11_RowsRemapped ==
  [][(/\ csv_logger'.csv_file = csv_logger.csv_file
      /\ Len(csv_logger'.columns) > Len(csv_logger.columns))
       => Remapped(csv_logger.files[csv_logger.csv_file],
                   csv_logger'.files[csv_logger.csv_file])]_vars

(* C11's case: unit 1 addresses 100-101 were logged by one call and unit 1 *)
(* addresses 102-103 by a later one: the header has all four register      *)
(* columns and the first row is blank in the two later-added columns.      *)
C11_Witness ==
  /\ call.before = RequestN(1, 16, 100, 2, Payload(4))
  /\ call.input = RequestN(1, 16, 102, 2, Payload(4))
  /\ Len(csv_logger.files) = 1
  /\ csv_logger.files[1] =
       << FixedColumns \o <<ColumnName(1, 100), ColumnName(1, 101),
                            ColumnName(1, 102), ColumnName(1, 103)>>,
          <<IsoFormat(0), Str(1), <<"WRITE">>, Str(10), Str(20), <<>>, <<>>>>,
          <<IsoFormat(0), Str(1), <<"WRITE">>, <<>>, <<>>, Str(10), Str(20)>> >>

(* The row the logger appended last.                                       *)
LastRow ==
  csv_logger.files[csv_logger.csv_file][Len(csv_logger.files[csv_logger.csv_file])]

(* The last decodeModbus call accepted one frame, a write request, whose   *)
(* row was therefore the last one appended.                                *)
LoggedWrite ==
  /\ Len(call.frames) = 1
  /\ \/ call.frames[1][2] = 6
     \/ call.frames[1][2] = 16 /\ Len(call.frames[1]) >= 11

(* The values of the write request F, as the decoder hands them to         *)
(* log_data.                                                               *)
WrittenValues(F) ==
  IF F[2] = 6 THEN <<U16(F, 4)>> ELSE Words(Slice(F, 7, 7 + F[7]))

(* The register columns of the row are those of the values at the offsets  *)
(* in I, and every other cell beyond the fixed three is blank.             *)
RowHolds(row, unit, start, values, I) ==
  /\ Len(row) = Len(csv_logger.columns)
  /\ row[1] = IsoFormat(csv_logger.current_date_str)
  /\ row[2] = Str(unit)
  /\ row[3] = <<"WRITE">>
  /\ \A i \in I :
       /\ <<unit, start + i>> \in DOMAIN csv_logger.register_map
       /\ row[csv_logger.register_map[<<unit, start + i>>] + 1] = Str(values[i + 1])
  /\ \A c \in 4..Len(row) :
       row[c] # <<>> =>
         \E i \in I : /\ <<unit, start + i>> \in DOMAIN csv_logger.register_map
                      /\ csv_logger.register_map[<<unit, start + i>>] = c - 1

(* C12, as claimed: the row appended by log_data(timestamp, unit,          *)
(* operation, start, quantity, values) holds timestamp, unit and operation *)
(* in the three fixed columns, holds values[i] in the column of            *)
(* (unit, start+i) for every i < len(values) whatever the relation between *)
(* quantity and len(values), and is blank in all other cells.              *)
C12_EveryValue ==
  LoggedWrite =>
    LET F == call.frames[1]
        values == WrittenValues(F)
    IN RowHolds(LastRow, F[1], U16(F, 2), values, 0..(Len(values) - 1))

(* C12, amended: the same, for every i < len(values) whose register        *)
(* (unit, start+i) has a column, which every i < quantity has; a value     *)
(* whose register has no column is not written.  (A Write Multiple         *)
(* registers request with quantity 1 and two registers of data gets one    *)
(* column, and its second value is dropped.)                               *)
C12_ValuesWithColumn ==
  LoggedWrite =>
    LET F == call.frames[1]
        values == WrittenValues(F)
        quantity == IF F[2] = 6 THEN 1 ELSE U16(F, 4)
        I == {i \in 0..(Len(values) - 1) :
                <<F[1], U16(F, 2) + i>> \in DOMAIN csv_logger.register_map}
    IN /\ RowHolds(LastRow, F[1], U16(F, 2), values, I)
       /\ \A i \in 0..(Len(values) - 1) : i < quantity => i \in I

(* C12's case: the request with quantity 1 and the values 10, 20 for       *)
(* address 104 was logged: one column, one value.                          *)
C12_Witness ==
  /\ call.frames = <<RequestN(1, 16, 104, 1, Payload(4))>>
  /\ LastRow = <<IsoFormat(0), Str(1), <<"WRITE">>, Str(10)>>
  /\ csv_logger.columns = FixedColumns \o <<ColumnName(1, 104)>>

-----------------------------------------------------------------------------
(* Bus traffic while the logger's disk may fail.                           *)

NextDisk ==
  Next \/ DiskFails

SpecDisk ==
  Init /\ [][NextDisk]_vars

(* C13, as claimed: if a file operation fails inside log_data, the error   *)
(* is propagated out of that log_data call, and the decode pipeline keeps  *)
(* operating: the frame that triggered the log call is still consumed from *)
(* the buffer, and later process_data calls decode subsequent frames.      *)
C13_PipelineSurvives ==
  call.raised => (/\ ~crashed
                  /\ Len(data) < Len(call.input))

-----------------------------------------------------------------------------
(* The CRC engine against the bitwise definition of the Modbus RTU CRC.    *)

(* Every single byte (every index of the two tables), pairs of bytes and   *)
(* whole frames.                                                           *)
CrcInputs ==
  {<<b>> : b \in Byte} \cup {<<a, b>> : a, b \in SomeBytes}
    \cup FramesToDamage \cup FramesOnWire

InitCrc ==
  /\ Fresh(FALSE, FALSE, FALSE, FALSE)
  /\ wire \in {<<d>> : d \in CrcInputs}

SpecCrc ==
  InitCrc /\ [][NextBus]_vars

(* The bitwise CRC-16 of d with its two bytes exchanged.                   *)
Exchanged(d) ==
  (Lo(Crc16(d)) * 256) + Hi(Crc16(d))

(* C14: for every byte sequence d and every n <= len(d), the table-driven  *)
(* calcCRC16(d, n) equals the bitwise Modbus RTU CRC-16 (polynomial        *)
(* 0xA001, initial register 0xFFFF, reflected, no final XOR) of d[0..n-1]  *)
(* with its two bytes exchanged; hence every accepted frame ends in the    *)
(* standard CRC low byte followed by the CRC high byte.                    *)
C14_TableIsBitwise ==
  /\ \A n \in 0..Len(rx) : calcCRC16(rx, n) = Exchanged(SubSeq(rx, 1, n))
  /\ \A i \in DOMAIN call.frames : CrcValid(call.frames[i])

(* C14's case: the decoder computed the CRC of 01 03 00 64 00 02 as 0x85D4 *)
(* and accepted the frame that ends in 85 D4, the bitwise CRC being 0xD485.*)
C14_Witness ==
  /\ rx = ExampleCorrected
  /\ call.frames = <<rx>>
  /\ calcCRC16(rx, 6) = (133 * 256) + 212
  /\ Crc16(SubSeq(rx, 1, 6)) = (212 * 256) + 133

-----------------------------------------------------------------------------
(* Responses without a pending request.                                    *)

(* The buffer holds exactly one read response of function code 3 or 4 for  *)
(* which no request is pending, and the step is the silence signal that    *)
(* decodes it.                                                             *)
UnmatchedResponseDecoded ==
  /\ quiet'
  /\ rx' = rx
  /\ today' = today
  /\ Len(data) >= 7
  /\ data[2] \in {3, 4}
  /\ <<data[1], data[2]>> \notin DOMAIN pendingRequests
  /\ \E t \in {Classify(data, 0)} : t.responce /\ t.end = Len(data)

(* C15: accepting an FC3/FC4 response when no pending entry exists for its *)
(* (unit id, function code) raises no error, still logs and emits the      *)
(* Response with its decoded values, writes no CSV row, and leaves the     *)
(* pending-request map unchanged.                                          *)
C15_UnmatchedResponse ==
  [][UnmatchedResponseDecoded =>
       (/\ ~crashed'
        /\ data' = <<>>
        /\ Len(log') > Len(log)
        /\ log'[Len(log')].who = "Slave"
        /\ log'[Len(log')].kind = "response"
        /\ log'[Len(log')].values = Words(Slice(data, 3, 3 + data[3]))
        /\ Len(on_parsed') > Len(on_parsed)
        /\ \A i \in (Len(on_parsed) + 1)..Len(on_parsed') :
             /\ on_parsed'[i].message_type = "response"
             /\ on_parsed'[i].data = Words(Slice(data, 3, 3 + data[3]))
        /\ csv_logger' = csv_logger
        /\ pendingRequests' = pendingRequests)]_vars

(* C15's case: a response of unit 17 was decoded while only a request to   *)
(* unit 1 was pending: the entry is still there and the CSV file has no    *)
(* row.                                                                    *)
C15_Witness ==
  /\ call.input = ResponseN(17, 3, Payload(2))
  /\ call.frames = <<call.input>>
  /\ call.pending = (<<1, 3>> :> <<100, 2, IsoFormat(0)>>)
  /\ pendingRequests = call.pending
  /\ Len(csv_logger.files[1]) = 1
  /\ log[Len(log)].id = 17
  /\ ~crashed

-----------------------------------------------------------------------------
(* Function codes the decoder does not handle.                             *)

HandledCodes ==
  {1, 2, 3, 4, 5, 6, 15, 16, 23}

(* The decoder after the first loop iteration on buf, in a fresh sniffer.  *)
FirstIteration(buf) ==
  Iteration(Decoder(FreshSniffer, buf), 0)

(* The iteration dropped exactly the leading byte of buf into the noise    *)
(* run and went on: no line, no event, no frame, no return.                *)
DroppedLeadingByte(d, buf) ==
  /\ d.noise = <<buf[1]>>
  /\ d.trashdata
  /\ d.trashdataf = <<buf[1]>>
  /\ d.modbusdata = Tail(buf)
  /\ d.bufferIndex = 0
  /\ d.frames = <<>>
  /\ d.log = <<>>
  /\ d.on_parsed = <<>>
  /\ d.pendingRequests = <<>>
  /\ ~d.returned

(* C16: for any buffer of at least 3 bytes whose second byte is a function *)
(* code below 128 that is not in {1,2,3,4,5,6,15,16,23}, the decoder emits *)
(* no event for that position, discards exactly the leading byte into the  *)
(* noise run, and continues scanning from the next byte without returning  *)
(* early.                                                                  *)
C16_UnhandledCode ==
  (/\ FirstCall(call.input)
   /\ Len(call.input) >= 3
   /\ call.input[2] < 128
   /\ call.input[2] \notin HandledCodes)
    => (/\ DroppedLeadingByte(FirstIteration(call.input), call.input)
        /\ call.iterations >= 2
        /\ call.noise[1] = call.input[1]
        /\ \E k \in 1..Len(call.input) : call.remainder = From(call.input, k)
        /\ ~crashed)

(* C16's case: 01 07 01 03 was decoded: the byte 01 before the function    *)
(* code 7 was discarded, and the scan went on at 07 01 03, which waits for *)
(* the rest of a Read Coils frame.                                         *)
C16_Witness ==
  /\ FirstCall(<<1, 7, 1, 3>>)
  /\ call.noise = <<1>>
  /\ call.iterations = 2
  /\ call.remainder = <<7, 1, 3>>
  /\ log = <<>>

-----------------------------------------------------------------------------
(* Delivery to on_parsed.                                                  *)

(* C17, as claimed: each accepted frame causes the on_parsed callback to   *)
(* be invoked exactly once with that frame's event: over any decodeModbus  *)
(* call the number of on_parsed invocations equals the number of frames    *)
(* accepted in that call.                                                  *)
C17_DeliveredOnce ==
  call.iterations > 0 => Len(Delivered) = Len(call.frames)

-----------------------------------------------------------------------------
(* Termination of the decoder loop.                                        *)

(* C18: decodeModbus terminates on every finite buffer: each loop          *)
(* iteration either returns or removes at least one byte from the front of *)
(* the buffer, so the loop runs at most len(buffer)+1 iterations.          *)
C18_LoopTerminates ==
  /\ call.iterations <= Len(call.input) + 1
  /\ Len(call.remainder) + Len(call.noise) <= Len(call.input)
  /\ \A i \in 0..Len(rx) :
       \E d \in {FirstIteration(From(rx, i))} :
         d.returned \/ Len(d.modbusdata) < Len(rx) - i

(* C18's case: 00 00 00 00 was decoded in three iterations: two discarded  *)
(* a byte each, the third found two bytes left and returned them.          *)
C18_Witness ==
  /\ call.input = <<0, 0, 0, 0>>
  /\ call.iterations = 3
  /\ call.noise = <<0, 0>>
  /\ call.remainder = <<0, 0>>

-----------------------------------------------------------------------------
(* Request before response.                                                *)

(* The request layout of the function code at frame start f.               *)
RequestLayout(md, f) ==
  LET functionCode == Rd(md, f + 1)
  IN CASE functionCode \in {1, 2, 3, 4, 5, 6} -> Fixed(md, f, 8, 4)
       [] functionCode = 15 -> Counted(md, f, 10, 4, 9)
       [] functionCode = 16 -> Counted(md, f, 11, 4, 9)
       [] functionCode = 23 -> Counted(md, f, 15, 8, 13)
       [] OTHER -> NotTried

(* C19: at each buffer position the request layout of the leading function *)
(* code is evaluated first: whenever it is complete in the buffer and its  *)
(* CRC matches, the frame is classified as Request; the response layout is *)
(* evaluated on the same leading bytes only if the request layout was      *)
(* incomplete or failed its CRC check.                                     *)
C19_RequestFirst ==
  (FirstCall(call.input) /\ Len(call.input) > 2)
    => \E rq \in {RequestLayout(call.input, 0)}, t \in {Classify(call.input, 0)} :
         /\ rq.ok => (/\ t.request
                      /\ ~t.responce
                      /\ call.frames[1] = SubSeq(call.input, 1, rq.end)
                      /\ Emitted[1].who = "Master"
                      /\ Emitted[1].kind = "request")
         /\ t.responce => ~rq.ok
         /\ (t.responce /\ call.noise = <<>>) => Emitted[1].kind = "response"

(* C19's case: 03 04 00 83 00 01 C1 C0 was decoded.  Its first five bytes  *)
(* pass as a response with byte count 0 and all eight as a request: it was *)
(* classified as Request.                                                  *)
C19_Witness ==
  /\ FirstCall(CollidingRequest)
  /\ CrcChecked(CollidingRequest, 3).ok
  /\ call.frames = <<CollidingRequest>>
  /\ Emitted[1].kind = "request"

-----------------------------------------------------------------------------
(* One byte of noise.                                                      *)

(* At the front of buf every layout tried for its function code is         *)
(* complete in the buffer and fails its CRC check.                         *)
AllLayoutsFail(buf) ==
  /\ Len(buf) > 2
  /\ buf[2] \in HandledCodes \cup 128..255
  /\ \E t \in {Classify(buf, 0)} :
       ~t.request /\ ~t.responce /\ ~t.error /\ ~t.needMoreData

(* A decoder about to run on buf, with a noise run open or not and one     *)
(* request pending.                                                        *)
DecoderWith(buf, open) ==
  [Decoder(FreshSniffer, buf) EXCEPT
     !.trashdata = open,
     !.trashdataf = IF open THEN <<85>> ELSE <<>>,
     !.pendingRequests = (<<1, 3>> :> <<100, 2, IsoFormat(0)>>)]

(* The iteration from d0 emitted nothing, put exactly the leading byte in  *)
(* the noise run, cut exactly one byte and left the pending map alone.     *)
OneByteOfNoise(d0, d) ==
  /\ d.log = d0.log
  /\ d.on_parsed = d0.on_parsed
  /\ d.frames = <<>>
  /\ d.noise = <<d0.modbusdata[1]>>
  /\ d.trashdata
  /\ d.trashdataf = (IF d0.trashdata THEN d0.trashdataf ELSE <<>>)
                      \o <<d0.modbusdata[1]>>
  /\ d.modbusdata = Tail(d0.modbusdata)
  /\ d.pendingRequests = d0.pendingRequests
  /\ ~d.returned

(* C20: when, at the buffer front, every layout tried for a supported      *)
(* function code is complete in the buffer and fails its CRC check, that   *)
(* loop iteration emits no event, appends exactly the leading byte to the  *)
(* noise run (opening one if none is open), removes exactly one byte from  *)
(* the buffer and leaves the pending-request map unchanged.                *)
C20_OneByteOfNoise ==
  \A i \in 0..Len(rx) :
    AllLayoutsFail(From(rx, i)) =>
      \A open \in BOOLEAN :
        OneByteOfNoise(DecoderWith(From(rx, i), open),
                       Iteration(DecoderWith(From(rx, i), open), 0))

(* C20's case: the Write Single Register request with a bit of its value   *)
(* flipped was decoded: at its front the request and the response layout   *)
(* are complete and fail the CRC check, and the call discarded the leading *)
(* byte and, the noise run then being open, the bytes after it.            *)
C20_Witness ==
  /\ Len(call.input) = 8
  /\ FirstCall(FlipBit(Request8(1, 6, 100, 2), 40))
  /\ AllLayoutsFail(call.input)
  /\ Len(call.noise) >= 2
  /\ call.noise[1] = 1
  /\ trashdata
  /\ SubSeq(trashdataf, 1, 2) = <<1, 6>>
  /\ log = <<>>

-----------------------------------------------------------------------------
(* Waiting for more data.                                                  *)

(* Fewer than 2 bytes are left in buf, or no layout of the leading         *)
(* function code is accepted and a tried layout is incomplete.             *)
MustWait(buf) ==
  \/ Len(buf) < 2
  \/ \E t \in {Classify(buf, 0)} :
       ~t.request /\ ~t.responce /\ ~t.error /\ t.needMoreData

(* The iteration from d0 returned the buffer as it was: no line, no event, *)
(* no frame, no noise byte, the noise run and the pending map as before.   *)
ReturnedUnchanged(d0, d) ==
  /\ d.returned
  /\ ~d.oob
  /\ d.modbusdata = d0.modbusdata
  /\ d.log = d0.log
  /\ d.on_parsed = d0.on_parsed
  /\ d.frames = <<>>
  /\ d.noise = <<>>
  /\ d.trashdata = d0.trashdata
  /\ d.trashdataf = d0.trashdataf
  /\ d.pendingRequests = d0.pendingRequests

(* C21: if fewer than 2 bytes remain at the current position, or no layout *)
(* of the leading function code was accepted and a tried layout was        *)
(* incomplete (needs more data), decodeModbus stops and returns the bytes  *)
(* from that position onward unchanged: no event is emitted for them, none *)
(* of them is discarded as noise, and the pending-request map is           *)
(* unchanged.  Checked at every position of the bytes received, with and   *)
(* without an open noise run, and on the call made, before the next burst  *)
(* arrives: when its argument must wait, the call runs one iteration and   *)
(* returns its argument.                                                   *)
C21_ReturnsRemainder ==
  /\ \A i \in 0..Len(rx) :
       MustWait(From(rx, i)) =>
         \A open \in BOOLEAN :
           ReturnedUnchanged(DecoderWith(From(rx, i), open),
                             Iteration(DecoderWith(From(rx, i), open), 0))
  /\ (quiet /\ call.iterations > 0 /\ MustWait(call.input))
       => (/\ call.iterations = 1
           /\ call.remainder = call.input
           /\ data = call.input
           /\ call.frames = <<>>
           /\ call.noise = <<>>
           /\ Emitted = <<>>
           /\ Delivered = <<>>
           /\ pendingRequests = call.pending
           /\ trashdata = call.trashdata)

(* C21's case: the first seven bytes of a Read Holding Registers request   *)
(* were decoded: the request layout wants an eighth byte, the response     *)
(* layout (byte count 0) fails its CRC, and the call returned the seven    *)
(* bytes.                                                                  *)
C21_Witness ==
  /\ FirstCall(SubSeq(Request8(1, 3, 100, 2), 1, 7))
  /\ MustWait(call.input)
  /\ ~Classify(call.input, 0).request
  /\ call.iterations = 1
  /\ data = call.input
  /\ call.noise = <<>>
  /\ ~trashdata
  /\ log = <<>>

-----------------------------------------------------------------------------
(* Polling: a master that polls holding registers of unit 1, up to         *)
(* MaxPolls frames on the wire, each arriving in one burst, decoded by a   *)
(* sniffer that logs to one CSV file.  The write to unit 9 arrives behind  *)
(* a byte of noise.                                                        *)

MaxPolls ==
  3

PollTraffic ==
  {Request8(1, 3, 100, 2), Request8(1, 3, 104, 1), ResponseN(1, 3, Payload(4)),
   ExceptionReply(1, 3, 2), ResponseN(17, 3, Payload(2)),
   <<0>> \o Request8(9, 6, 101, 7)}

InitPolling ==
  /\ Fresh(TRUE, FALSE, FALSE, FALSE)
  /\ wire \in UNION {[1..n -> PollTraffic] : n \in 1..MaxPolls}

SpecPolling ==
  InitPolling /\ [][Next]_vars

-----------------------------------------------------------------------------
(* The pending-request map.                                                *)

(* The accepted frame F is a Read Holding / Input Registers request: the   *)
(* request layout, tried first, accepts 8 bytes.                           *)
IsReadRequest(F) ==
  F[2] \in {3, 4} /\ Len(F) = 8

(* The accepted frame F is a Read Holding / Input Registers response: 5    *)
(* bytes and the data; were they 8 in all, the request layout would have   *)
(* accepted them.                                                          *)
IsReadResponse(F) ==
  F[2] \in {3, 4} /\ Len(F) # 8

(* The accepted frame F is a read request or response of key k.            *)
HasKey(F, k) ==
  (IsReadRequest(F) \/ IsReadResponse(F)) /\ <<F[1], F[2]>> = k

(* Frame j is the last frame of key k that the last call accepted.         *)
LastOfKey(j, k) ==
  /\ j \in DOMAIN call.frames
  /\ HasKey(call.frames[j], k)
  /\ \A i \in (j + 1)..Len(call.frames) : ~HasKey(call.frames[i], k)

(* The (address, quantity) remembered for key k when frame j of the last   *)
(* call was accepted: those of the nearest request of key k before it in   *)
(* the call, else those the map held when the call was made; <<>> when     *)
(* there is none.                                                          *)
RememberedAt(j, k) ==
  LET before == {i \in 1..(j - 1) : HasKey(call.frames[i], k)}
  IN IF before # {}
     THEN LET F == call.frames[SetMax(before)]
          IN IF IsReadRequest(F) THEN <<U16(F, 2), U16(F, 4)>> ELSE <<>>
     ELSE IF k \in DOMAIN call.pending THEN SubSeq(call.pending[k], 1, 2)
     ELSE <<>>

(* The registers an accepted read response carries.                        *)
ResponseValues(F) ==
  Words(Slice(F, 3, 3 + F[3]))

(* The row is a READ row of the unit that holds values[i] under the column *)
(* of register start + i.                                                  *)
ReadRowFrom(row, unit, start, values) ==
  /\ Len(row) = Len(csv_logger.columns)
  /\ row[2] = Str(unit)
  /\ row[3] = <<"READ">>
  /\ \A i \in 0..(Len(values) - 1) :
       /\ <<unit, start + i>> \in DOMAIN csv_logger.register_map
       /\ csv_logger.columns[csv_logger.register_map[<<unit, start + i>>] + 1]
            = ColumnName(unit, start + i)
       /\ row[csv_logger.register_map[<<unit, start + i>>] + 1] = Str(values[i + 1])

(* C22: the pending-request map holds at most one entry per (unit id,      *)
(* function code); accepting a second FC3/FC4 request with the same key    *)
(* before any response replaces the stored (address, quantity) with the    *)
(* new request's, so the next response with that key is attributed to the  *)
(* later request.  After every call: the map holds one (address, quantity, *)
(* time) per key; a key whose last accepted frame was a request holds that *)
(* request's address and quantity, whatever it held before; and when the   *)
(* call's last frame is a response of a key for which a request is         *)
(* remembered, the CSV row written for it starts at the address of the     *)
(* latest request of that key.                                             *)
C22_LaterRequestWins ==
  /\ \A k \in DOMAIN pendingRequests :
       /\ k \in Byte \X Byte
       /\ Len(pendingRequests[k]) = 3
  /\ call.iterations > 0 =>
       \A j \in DOMAIN call.frames :
         LET F == call.frames[j]
             k == <<F[1], F[2]>>
         IN /\ (IsReadRequest(F) /\ LastOfKey(j, k))
                 => (/\ k \in DOMAIN pendingRequests
                     /\ SubSeq(pendingRequests[k], 1, 2) = <<U16(F, 2), U16(F, 4)>>)
            /\ (IsReadResponse(F) /\ j = Len(call.frames) /\ RememberedAt(j, k) # <<>>)
                 => ReadRowFrom(LastRow, F[1], RememberedAt(j, k)[1], ResponseValues(F))

(* C22's case: the request for address 100 was pending when the request    *)
(* for address 104 and a response were decoded: the response's registers   *)
(* went to the columns of 104 and 105, and no entry is left.               *)
C22_Witness ==
  /\ <<1, 3>> \in DOMAIN call.pending
  /\ call.pending[<<1, 3>>][1] = 100
  /\ call.frames = <<Request8(1, 3, 104, 1), ResponseN(1, 3, Payload(4))>>
  /\ pendingRequests = <<>>
  /\ csv_logger.columns = FixedColumns \o <<ColumnName(1, 104), ColumnName(1, 105)>>
  /\ LastRow[4] = Str(10)
  /\ LastRow[5] = Str(20)

(* The frames accepted in the step: those of the decodeModbus call, when   *)
(* the step is a silence on the bus with more than 2 bytes buffered.       *)
AcceptedInStep ==
  IF wire' = wire /\ today' = today /\ Len(data) > 2 THEN call'.frames ELSE <<>>

(* The last frame of key k accepted in the step is a response.             *)
AnsweredInStep(k) ==
  \E j \in DOMAIN AcceptedInStep :
    /\ IsReadResponse(AcceptedInStep[j])
    /\ HasKey(AcceptedInStep[j], k)
    /\ \A i \in (j + 1)..Len(AcceptedInStep) : ~HasKey(AcceptedInStep[i], k)

(* C23: a pending entry for (u, fc) is removed exactly when an FC3/FC4     *)
(* response with the same (u, fc) is accepted; exception frames (including *)
(* the exception reply to that very request), frames of other function     *)
(* codes or other units, noise bytes and the passage of time never remove  *)
(* or change it.  In every step, for every entry: it is gone after the     *)
(* step only if a response of its key was accepted in the step, it is gone *)
(* if the last frame of its key accepted in the step was a response, and   *)
(* it is there unchanged if no read request or response of its key was     *)
(* accepted in the step.                                                   *)
C23_RemovedByResponseOnly ==
  [][\A k \in DOMAIN pendingRequests :
       /\ k \notin DOMAIN pendingRequests' =>
            \E j \in DOMAIN AcceptedInStep :
              IsReadResponse(AcceptedInStep[j]) /\ HasKey(AcceptedInStep[j], k)
       /\ AnsweredInStep(k) => k \notin DOMAIN pendingRequests'
       /\ (\A j \in DOMAIN AcceptedInStep : ~HasKey(AcceptedInStep[j], k))
            => (/\ k \in DOMAIN pendingRequests'
                /\ pendingRequests'[k] = pendingRequests[k])]_vars

(* C23's case: with the request of unit 1 pending since day 0, the         *)
(* exception reply to it was decoded on day 1: the entry is still there.   *)
C23_Witness ==
  /\ today = 1
  /\ call.frames = <<ExceptionReply(1, 3, 2)>>
  /\ <<1, 3>> \in DOMAIN call.pending
  /\ pendingRequests = call.pending
  /\ pendingRequests[<<1, 3>>] = <<100, 2, IsoFormat(0)>>

-----------------------------------------------------------------------------
(* Frames of every function code behind a read request.  The request       *)
(* 01 03 00 64 00 02 arrives first, then one frame of any layout, decoded  *)
(* by a sniffer that logs to one CSV file.                                 *)

InitCodes ==
  /\ Fresh(TRUE, FALSE, FALSE, FALSE)
  /\ wire \in {<<Request8(1, 3, 100, 2), F>> : F \in FramesOnWire}

SpecCodes ==
  InitCodes /\ [][NextBus]_vars

(* The function codes whose frames have nothing to do with the map.        *)
UncorrelatedCodes ==
  {1, 2, 5, 6, 15, 16, 23}

(* The iteration gives the same with the map P as with an empty map, and   *)
(* leaves either map as it was.                                            *)
IgnoresPending(d0, withMap, withoutMap) ==
  /\ withMap.pendingRequests = d0.pendingRequests
  /\ withoutMap.pendingRequests = <<>>
  /\ [withMap EXCEPT !.pendingRequests = <<>>] = withoutMap

(* C24: only accepted requests with function code 3 or 4 create pending    *)
(* entries: in every reachable state each key of the pending-request map   *)
(* has function code 3 or 4, and frames of function codes 1, 2, 5, 6, 15,  *)
(* 16, 23 never read or modify the map.  A call that accepted only frames  *)
(* of those codes left the map as it found it, and with such a code at the *)
(* front of the buffer the next loop iteration does the same whether the   *)
(* map holds its entries or none.                                          *)
C24_OnlyReadRegisters ==
  /\ \A k \in DOMAIN pendingRequests : k[2] \in {3, 4}
  /\ (/\ call.iterations > 0
      /\ \A j \in DOMAIN call.frames : call.frames[j][2] \in UncorrelatedCodes)
       => pendingRequests = call.pending
  /\ (Len(data) > 2 /\ data[2] \in UncorrelatedCodes)
       => IgnoresPending(Decoder(Sniffer, data),
                         Iteration(Decoder(Sniffer, data), today),
                         Iteration([Decoder(Sniffer, data) EXCEPT
                                      !.pendingRequests = <<>>], today))

(* C24's case: with the read request of unit 1 pending, a Read/Write       *)
(* Multiple registers request of unit 1 was decoded: the map holds the     *)
(* read request's entry and nothing else.                                  *)
C24_Witness ==
  /\ call.pending = (<<1, 3>> :> <<100, 2, IsoFormat(0)>>)
  /\ Len(call.frames) = 1
  /\ call.frames[1][2] = 23
  /\ call.frames[1][1] = 1
  /\ Len(call.frames[1]) >= 15
  /\ pendingRequests = call.pending

-----------------------------------------------------------------------------
(* The registers a READ row covers.                                        *)

(* The cells of the row beyond the three fixed ones that hold a value are  *)
(* exactly those of the registers start .. start + quantity - 1 of the     *)
(* unit.                                                                   *)
CoversExactly(row, unit, start, quantity) ==
  /\ \A i \in 0..(quantity - 1) :
       /\ <<unit, start + i>> \in DOMAIN csv_logger.register_map
       /\ row[csv_logger.register_map[<<unit, start + i>>] + 1] # <<>>
  /\ \A c \in 4..Len(row) :
       row[c] # <<>> =>
         \E i \in 0..(quantity - 1) :
           /\ <<unit, start + i>> \in DOMAIN csv_logger.register_map
           /\ csv_logger.register_map[<<unit, start + i>>] = c - 1

(* C25, as claimed: the CSV row written for an attributed FC3/FC4 response *)
(* covers exactly the register addresses [start_address,                   *)
(* start_address+quantity) of the remembered request: the number of        *)
(* register columns ensured and values written equals the request's        *)
(* quantity.                                                               *)
C25_RowCoversRequest ==
  (/\ call.iterations > 0
   /\ call.frames # <<>>
   /\ IsReadResponse(call.frames[Len(call.frames)])
   /\ RememberedAt(Len(call.frames), <<call.frames[Len(call.frames)][1],
                                       call.frames[Len(call.frames)][2]>>) # <<>>)
    => \E e \in {RememberedAt(Len(call.frames), <<call.frames[Len(call.frames)][1],
                                                  call.frames[Len(call.frames)][2]>>)} :
         /\ LastRow[3] = <<"READ">>
         /\ CoversExactly(LastRow, call.frames[Len(call.frames)][1], e[1], e[2])

-----------------------------------------------------------------------------
(* The register columns.                                                   *)

(* The register map of logger L names, for every register it knows, the    *)
(* position of that register's column, every register column is the column *)
(* of a register it knows, and no column name occurs twice.                *)
ColumnsIndexed(L) ==
  /\ SubSeq(L.columns, 1, 3) = FixedColumns
  /\ \A key \in DOMAIN L.register_map :
       /\ L.register_map[key] + 1 \in 4..Len(L.columns)
       /\ L.columns[L.register_map[key] + 1] = ColumnName(key[1], key[2])
       /\ IndexOf(L.columns, ColumnName(key[1], key[2])) = L.register_map[key]
  /\ \A c \in 4..Len(L.columns) :
       \E key \in DOMAIN L.register_map : L.register_map[key] = c - 1
  /\ \A c1, c2 \in DOMAIN L.columns : L.columns[c1] = L.columns[c2] => c1 = c2

(* C26: register columns are appended in first-seen order and never        *)
(* removed or reordered: once (unit, address) is assigned a column index,  *)
(* that index and the column name at that index never change in later      *)
(* log_data calls, and register_map[(u, a)] always equals the position of  *)
(* the column Reg_u_a in the column list, with no column name occurring    *)
(* twice.  In every step the column list after it begins with the column   *)
(* list before it and every register keeps its index.                      *)
C26_ColumnsStable ==
  [][/\ ColumnsIndexed(csv_logger)
     /\ ColumnsIndexed(csv_logger')
     /\ Len(csv_logger'.columns) >= Len(csv_logger.columns)
     /\ SubSeq(csv_logger'.columns, 1, Len(csv_logger.columns)) = csv_logger.columns
     /\ \A key \in DOMAIN csv_logger.register_map :
          /\ key \in DOMAIN csv_logger'.register_map
          /\ csv_logger'.register_map[key] = csv_logger.register_map[key]]_vars

(* C26's case: register 101 of unit 1 was logged first and register 100    *)
(* after it: the columns stand in that order.                              *)
C26_Witness ==
  /\ csv_logger.columns
       = FixedColumns \o <<ColumnName(1, 101), ColumnName(1, 100)>>
  /\ csv_logger.register_map[<<1, 101>>] = 3
  /\ csv_logger.register_map[<<1, 100>>] = 4
  /\ Len(call.frames) = 1
  /\ call.frames[1][2] = 16

-----------------------------------------------------------------------------
(* The accumulation buffer.                                                *)

(* buf is what is left of all when some bytes are taken from its front.    *)
IsSuffix(buf, all) ==
  \E k \in 0..Len(all) : buf = From(all, k)

(* C27: in normal (not raw-only) mode the accumulation buffer is at all    *)
(* times a contiguous suffix of the concatenation of all bytes received so *)
(* far: bytes are only appended at the end or removed from the front,      *)
(* never reordered, duplicated or altered, across any sequence of          *)
(* process_data calls.                                                     *)
C27_BufferIsSuffix ==
  [][/\ ~config.raw_only
     /\ IsSuffix(data, rx)
     /\ IsSuffix(data', rx')
     /\ \/ wire # <<>> /\ rx' = rx \o Head(wire) /\ data' = data \o Head(wire)
        \/ rx' = rx /\ IsSuffix(data', data)]_vars

(* C27's case: a frame was decoded and cut from the front of the buffer,   *)
(* then the bytes of the next were appended: the buffer holds the bytes    *)
(* received after the first frame.                                         *)
C27_Witness ==
  /\ call.frames = <<Request8(1, 3, 100, 2)>>
  /\ call.remainder = <<>>
  /\ Len(data) = 9
  /\ Len(rx) = 17
  /\ data = From(rx, 8)
  /\ ~quiet

-----------------------------------------------------------------------------
(* Reporting the noise.  One damaged input arrives, is decoded, and the    *)
(* sniffer is closed.                                                      *)

NextClose ==
  NextBus \/ Close

SpecClose ==
  InitDamaged /\ [][NextClose]_vars

(* The bytes listed in the 'Ignoring data' lines of the log, in order.     *)
RECURSIVE Reported(_)
Reported(lines) ==
  IF lines = <<>> THEN <<>>
  ELSE (IF Head(lines).kind = "ignoring" THEN Head(lines).values ELSE <<>>)
         \o Reported(Tail(lines))

(* The noise run that is open: discarded bytes not yet in a log line.      *)
OpenRun ==
  IF trashdata THEN trashdataf ELSE <<>>

(* C28, as claimed: every noise byte discarded by the decoder is reported  *)
(* in exactly one 'Ignoring data' log line; that line is emitted when the  *)
(* next valid frame is accepted (before that frame's own log line, also    *)
(* when the frame arrives in a later decode call) or, if no further valid  *)
(* frame arrives, when the stream ends and the sniffer is closed.          *)
C28_NoiseReported ==
  /\ Reported(log) \o OpenRun = call.discarded
  /\ \A i \in DOMAIN log :
       log[i].kind = "ignoring"
         => (i < Len(log) /\ log[i + 1].kind \in {"request", "response", "exception"})
  /\ closed => Reported(log) = call.discarded

-----------------------------------------------------------------------------
(* Request, response, exception.                                           *)

(* At most one of the three flags is set.                                  *)
AtMostOneFlag(t) ==
  /\ ~(t.request /\ t.responce)
  /\ ~(t.request /\ t.error)
  /\ ~(t.responce /\ t.error)

(* The frame lines the last call logged, without the noise lines: line j   *)
(* is that of the j-th accepted frame, and its kind is the flag that the   *)
(* layout which validated the frame set.                                   *)
FrameLines ==
  SelectSeq(Emitted, LAMBDA l : l.kind # "ignoring")

(* The event e is that of the accepted frame F, which the layout of the    *)
(* given kind validated, and carries the tag.                              *)
EventOf(e, F, kind, tag) ==
  /\ e.slave_id = F[1]
  /\ e.function = F[2]
  /\ e.message_type = tag
  /\ (e.exception_code # NA) <=> (kind = "exception")

(* The flags of the iteration at every position of the bytes received, and *)
(* the log line of every frame the last call accepted.                     *)
FlagsAndLines ==
  /\ \A i \in 0..Len(rx) : AtMostOneFlag(Classify(From(rx, i), 0))
  /\ call.iterations > 0 =>
       /\ Len(FrameLines) = Len(call.frames)
       /\ \A j \in DOMAIN call.frames :
            /\ FrameLines[j].kind \in {"request", "response", "exception"}
            /\ FrameLines[j].id = call.frames[j][1]
            /\ FrameLines[j].fc = call.frames[j][2]

(* C29, as claimed: every consumed frame is classified as exactly one of   *)
(* Request, Response, Exception: at the end of each loop iteration at most *)
(* one of the request/response/error flags is set, and the classification  *)
(* tag of every emitted event is one of those three values and agrees with *)
(* the layout that validated (Request for request layouts, Response for    *)
(* response layouts, Exception for exception frames).                      *)
C29_TagIsTheLayout ==
  /\ FlagsAndLines
  /\ call.iterations > 0 =>
       \A n \in DOMAIN Delivered :
         \E j \in DOMAIN call.frames :
           EventOf(Delivered[n], call.frames[j], FrameLines[j].kind,
                   FrameLines[j].kind)

(* C29, amended: the same, the tag of an event being "request" for the     *)
(* request layouts and "response" for the response layouts and for the     *)
(* exception frames, whose events carry the exception code.                *)
C29_TagIsRequestOrResponse ==
  /\ FlagsAndLines
  /\ call.iterations > 0 =>
       \A n \in DOMAIN Delivered :
         \E j \in DOMAIN call.frames :
           EventOf(Delivered[n], call.frames[j], FrameLines[j].kind,
                   IF FrameLines[j].kind = "request" THEN "request"
                   ELSE "response")

(* C29's case: the exception reply 01 83 02 was decoded: the error flag    *)
(* alone was set, the line is an exception line and the event is tagged    *)
(* "response".                                                             *)
C29_Witness ==
  /\ FirstCall(ExceptionReply(1, 3, 2))
  /\ call.frames = <<call.input>>
  /\ Classify(call.input, 0).error
  /\ Emitted[1].kind = "exception"
  /\ Len(Delivered) >= 1
  /\ Delivered[1].message_type = "response"
  /\ Delivered[1].exception_code = 2

-----------------------------------------------------------------------------
(* Write Single Coil.                                                      *)

(* C30, as claimed: for function code 5 the only response layout is the    *)
(* 8-byte echo of the request (id, fc, addr(2), value(2), crc(2)): no byte *)
(* sequence with function code 5 that is shorter than 8 bytes is ever      *)
(* accepted as a frame.                                                    *)
C30_EchoOnly ==
  /\ \A j \in DOMAIN call.frames :
       call.frames[j][2] = 5 => Len(call.frames[j]) = 8
  /\ \A i \in 0..Len(rx) :
       (Len(rx) - i > 2 /\ From(rx, i)[2] = 5)
         => \E t \in {Classify(From(rx, i), 0)} :
              (t.request \/ t.responce \/ t.error) => t.end = 8

-----------------------------------------------------------------------------
(* Responses that carry a byte count.                                      *)

(* F is id, fc, count(1), data(count), crc(2) with one of the function     *)
(* codes whose response has this layout, and its CRC matches.              *)
CountedResponse(F) ==
  /\ Len(F) >= 5
  /\ F[2] \in {1, 2, 3, 4, 23}
  /\ Len(F) = 5 + F[3]
  /\ CrcValid(F)

(* C31, as claimed: for function codes 1, 2, 3, 4 and 23 and every byte    *)
(* count c, a CRC-valid response of exactly 5+c bytes at the buffer front  *)
(* is consumed as a frame by the decode call in which all 5+c bytes are    *)
(* present, including when the buffer holds nothing else (c = 0 and c = 1  *)
(* give 5- and 6-byte frames).                                             *)
C31_ResponseConsumed ==
  (call.iterations > 0 /\ CountedResponse(call.input))
    => (/\ call.frames # <<>>
        /\ call.frames[1] = call.input
        /\ call.remainder = <<>>)

-----------------------------------------------------------------------------
(* Exception frames.                                                       *)

(* The codes an exception reply can carry in its second byte.              *)
ExceptionCodes ==
  {129, 131, 134, 144}

(* id, function code, one byte: the body of every 5-byte frame.            *)
FiveByteFrames ==
  {Framed(<<u, fc, b>>) :
     u \in Units, fc \in HandledCodes \cup ExceptionCodes \cup {7}, b \in {0, 1, 2}}

(* One CRC-valid 5-byte frame on the wire, in one burst or cut in two.     *)
InitFiveBytes ==
  /\ Fresh(FALSE, FALSE, FALSE, FALSE)
  /\ wire \in UNION {Bursts(F) : F \in FiveByteFrames}

SpecFiveBytes ==
  InitFiveBytes /\ [][NextBus]_vars

(* C32, as claimed: an Exception classification is produced only for a     *)
(* 5-byte CRC-valid frame whose function code has the high bit set         *)
(* (>= 128): no frame whose function code is below 128 is ever classified  *)
(* as Exception.  Checked on the error flag of the iteration at every      *)
(* position of the bytes received and on every line logged.                *)
C32_ExceptionHighBit ==
  /\ \A i \in 0..Len(rx) :
       Classify(From(rx, i), 0).error
         => (/\ From(rx, i)[2] >= 128
             /\ Classify(From(rx, i), 0).end = 5
             /\ CrcValid(SubSeq(From(rx, i), 1, 5)))
  /\ \A n \in DOMAIN log :
       log[n].kind = "exception" => log[n].fc >= 128

-----------------------------------------------------------------------------
(* The modes of the sniffer: raw logging of every accepted frame, and      *)
(* raw-only, in which nothing is decoded.                                  *)

FramesInModes ==
  {Request8(1, 3, 100, 2), ResponseN(1, 3, Payload(4)), ExceptionReply(1, 3, 2),
   Request8(1, 6, 100, 2), <<85>> \o Request8(17, 3, 258, 1)}

(* One frame on the wire, in one burst or cut in two, the sniffer having   *)
(* been constructed with any of the raw_log / raw_only settings.           *)
InitModes ==
  \E raw_log \in BOOLEAN, raw_only \in BOOLEAN :
    /\ Fresh(FALSE, FALSE, raw_log, raw_only)
    /\ wire \in UNION {Bursts(F) : F \in FramesInModes}

SpecModes ==
  InitModes /\ [][NextBus]_vars

(* The step is a process_data call with a non-empty chunk.                  *)
ChunkArrives ==
  wire' # wire

(* The step is a process_data call with an empty chunk.                     *)
SilenceSignalled ==
  wire' = wire

(* The call left everything but the buffer as it was.                      *)
NothingEmitted ==
  UNCHANGED <<log, on_parsed, pendingRequests, trashdata, trashdataf,
              csv_logger, call>>

(* The empty chunk: the decoder runs on the buffer when it holds more than *)
(* 2 bytes, and the buffer becomes the remainder it returns; otherwise     *)
(* nothing happens.                                                        *)
DecodesOnSilence ==
  SilenceSignalled =>
    IF Len(data) > 2
    THEN /\ call'.input = data
         /\ call'.iterations > 0
         /\ crashed' \/ data' = call'.remainder
    ELSE NothingEmitted /\ data' = data

(* C33, as claimed: process_data with a non-empty chunk only appends the   *)
(* chunk to the buffer and emits nothing; decoding runs only when          *)
(* process_data receives an empty chunk (silence) while more than 2 bytes  *)
(* are buffered, and right after it the buffer equals exactly the          *)
(* remainder returned by the decoder.                                      *)
C33_AppendsThenDecodes ==
  [][/\ ChunkArrives => (NothingEmitted /\ data' = data \o Head(wire))
     /\ DecodesOnSilence]_vars

(* C33, amended: the same when raw-only mode is off; in raw-only mode a    *)
(* non-empty chunk is logged as one raw line and is not buffered.          *)
C33_AppendsUnlessRawOnly ==
  [][/\ ChunkArrives =>
          IF config.raw_only
          THEN /\ data' = data
               /\ log' = Append(log, RawLine(Head(wire)))
               /\ UNCHANGED <<on_parsed, pendingRequests, trashdata, trashdataf,
                              csv_logger, call>>
          ELSE NothingEmitted /\ data' = data \o Head(wire)
     /\ DecodesOnSilence]_vars

(* C33's case: with raw logging on and raw-only off, a read request         *)
(* arrived as 3 bytes, a silence signal, 5 bytes and a silence signal:     *)
(* nothing was logged before the second silence signal, whose call logged  *)
(* the raw line and the frame line and returned the empty remainder.       *)
C33_Witness ==
  /\ ~config.raw_only
  /\ config.raw_log
  /\ quiet
  /\ rx = Request8(1, 3, 100, 2)
  /\ call.before = SubSeq(rx, 1, 3)
  /\ call.input = rx
  /\ call.logged = 0
  /\ Len(log) = 2
  /\ call.remainder = <<>>
  /\ data = call.remainder

-----------------------------------------------------------------------------
(* Where the bytes of a call's argument went.                              *)

(* buf is, in order, the frames and the noise bytes interleaved, followed  *)
(* by rest: every byte of buf is a byte of exactly one frame, one noise    *)
(* byte, or a byte of rest.                                                *)
RECURSIVE Interleaved(_, _, _, _)
Interleaved(buf, frames, noise, rest) ==
  \/ frames = <<>> /\ noise = <<>> /\ buf = rest
  \/ /\ frames # <<>>
     /\ Len(Head(frames)) <= Len(buf)
     /\ SubSeq(buf, 1, Len(Head(frames))) = Head(frames)
     /\ Interleaved(From(buf, Len(Head(frames))), Tail(frames), noise, rest)
  \/ /\ noise # <<>>
     /\ buf # <<>>
     /\ Head(buf) = Head(noise)
     /\ Interleaved(Tail(buf), frames, Tail(noise), rest)

(* C34: for every decodeModbus call, the input buffer equals, in original  *)
(* order, the interleaving of the bytes of the frames accepted, the bytes  *)
(* discarded as noise and finally the returned remainder: no byte is       *)
(* dropped without being part of an accepted frame or the noise run, and   *)
(* no byte belongs to two accepted frames.                                 *)
C34_BytesAccountedFor ==
  call.iterations > 0 =>
    /\ Interleaved(call.input, call.frames, call.noise, call.remainder)
    /\ \A j \in DOMAIN call.frames : call.frames[j] # <<>>

(* C34's case: two junk bytes and a read request were decoded in one call: *)
(* the two bytes went to the noise run, the eight bytes behind them were   *)
(* accepted as one frame, and nothing remained.                            *)
C34_Witness ==
  /\ call.input = <<85, 200>> \o Request8(1, 3, 100, 2)
  /\ call.noise = <<85, 200>>
  /\ call.frames = <<Request8(1, 3, 100, 2)>>
  /\ call.remainder = <<>>
  /\ Interleaved(call.input, call.frames, call.noise, call.remainder)

-----------------------------------------------------------------------------
(* Long buffers.                                                           *)

(* The longest layout the decoder tries: the FC23 request, 13 + n bytes    *)
(* with the write byte count n = 255.                                      *)
LongestLayout ==
  13 + 255

(* How many bytes more than the longest layout a long buffer holds.        *)
MaxBehind ==
  1

(* n bytes: unit id, function code, nine bytes 255 (so that every byte     *)
(* count read at the front is 255), then zeros.                            *)
LongInput(u, fc, n) ==
  [k \in 1..n |-> IF k = 1 THEN u ELSE IF k = 2 THEN fc ELSE IF k <= 11 THEN 255 ELSE 0]

LongInputs ==
  {LongInput(u, fc, n) :
     u \in Units, fc \in HandledCodes \cup {7, 131},
     n \in (LongestLayout - 1)..(LongestLayout + MaxBehind)}
  \cup {F \o LongInput(0, 0, LongestLayout) :
          F \in {Request8(1, 3, 100, 2), ResponseN(1, 3, Payload(4)),
                 ExceptionReply(1, 3, 2)}}

(* One long input on the wire, in one burst.                               *)
InitLong ==
  /\ Fresh(FALSE, FALSE, FALSE, FALSE)
  /\ wire \in {<<G>> : G \in LongInputs}

SpecLong ==
  InitLong /\ [][NextBus]_vars

(* The iteration from d0 accepted a frame at the front of the buffer.      *)
AcceptedOne(d0, d) ==
  /\ Len(d.frames) = 1
  /\ d.noise = <<>>
  /\ d0.modbusdata = d.frames[1] \o d.modbusdata

(* C35: whenever at least 268 bytes (the longest candidate layout, 13+255  *)
(* for an FC23 request) are available at the current position, the         *)
(* iteration never reports needs-more-data: it either accepts a frame or   *)
(* discards one byte, so a corrupted prefix can stall decoding only until  *)
(* 268 bytes have accumulated behind it.  Checked at every position of the *)
(* bytes received with that many bytes behind it, and on the call made:    *)
(* with 268 bytes or more in its argument it returns fewer.                *)
C35_NoWaitBeyondLongest ==
  /\ \A i \in 0..(Len(rx) - LongestLayout) :
       /\ ~Classify(From(rx, i), 0).needMoreData
       /\ \E d0 \in {DecoderWith(From(rx, i), FALSE)} :
            \E d \in {Iteration(d0, 0)} :
              /\ ~d.returned
              /\ ~d.oob
              /\ AcceptedOne(d0, d) \/ OneByteOfNoise(d0, d)
  /\ (call.iterations > 0 /\ Len(call.input) >= LongestLayout)
       => Len(call.remainder) < Len(call.input)

(* C35's case: 268 bytes that begin as an FC23 request with write byte     *)
(* count 255 and a CRC that does not match were decoded: the request       *)
(* layout was complete, nothing asked for more data, and the call          *)
(* discarded the leading byte (with one byte less the same buffer would    *)
(* have been returned whole).                                              *)
C35_Witness ==
  /\ FirstCall(LongInput(1, 23, LongestLayout))
  /\ call.input[11] = 255
  /\ ~Classify(call.input, 0).needMoreData
  /\ Classify(SubSeq(call.input, 1, LongestLayout - 1), 0).needMoreData
  /\ Len(call.noise) >= 2
  /\ SubSeq(call.noise, 1, 2) = <<1, 23>>
  /\ Len(call.remainder) < Len(call.input)

-----------------------------------------------------------------------------
(* Write Single Register and its echo.                                     *)

WriteSingleFrames ==
  {Request8(u, 6, a, q) : u \in Units, a \in Addresses, q \in Quantities}

(* A Write Single Register frame and a second one (the slave's echo, the   *)
(* next request, or a damaged frame) on the wire, each in one burst,       *)
(* decoded by a sniffer that logs to one CSV file.                         *)
InitEcho ==
  /\ Fresh(TRUE, FALSE, FALSE, FALSE)
  /\ wire \in {<<F, G>> :
                 F \in WriteSingleFrames,
                 G \in WriteSingleFrames
                         \cup {FlipBit(Request8(1, 6, 100, 2), k) : k \in 0..63}}

SpecEcho ==
  InitEcho /\ [][NextBus]_vars

(* The lines logged for accepted frames with function code 6.              *)
WriteSingleLines ==
  SelectSeq(log, LAMBDA l : l.kind # "ignoring" /\ l.fc = 6)

(* C36: every 8-byte CRC-valid frame with function code 6 is classified as *)
(* Request, so the slave's echo of a Write Single Register is reported as  *)
(* a second Request and logged as a second WRITE row; no execution ever    *)
(* classifies a function-code-6 frame as Response.  Checked on the flags   *)
(* of the iteration at every position of the bytes received, on every      *)
(* line logged and event delivered, and on the rows of the CSV file: one   *)
(* WRITE row for each line.                                                *)
C36_EchoIsRequest ==
  /\ \A i \in 0..Len(rx) :
       (Len(rx) - i > 2 /\ From(rx, i)[2] = 6)
         => \E t \in {Classify(From(rx, i), 0)} :
              /\ ~t.responce
              /\ ~t.error
              /\ (Len(rx) - i >= 8 /\ CrcValid(SubSeq(From(rx, i), 1, 8)))
                   => (t.request /\ t.end = 8)
  /\ \A n \in DOMAIN WriteSingleLines :
       /\ WriteSingleLines[n].kind = "request"
       /\ WriteSingleLines[n].who = "Master"
  /\ \A n \in DOMAIN on_parsed :
       on_parsed[n].function = 6 => on_parsed[n].message_type = "request"
  /\ Len(csv_logger.files[1]) = 1 + Len(WriteSingleLines)
  /\ \A n \in DOMAIN WriteSingleLines :
       /\ csv_logger.files[1][n + 1][2] = Str(WriteSingleLines[n].id)
       /\ csv_logger.files[1][n + 1][3] = <<"WRITE">>

(* C36's case: the request 01 06 00 64 00 02 and its echo, the same eight  *)
(* bytes, were decoded: two Master lines and two WRITE rows with the value *)
(* 2 in the column of register 100.                                        *)
C36_Witness ==
  /\ wire = <<>>
  /\ quiet
  /\ rx = Request8(1, 6, 100, 2) \o Request8(1, 6, 100, 2)
  /\ data = <<>>
  /\ Len(log) = 2
  /\ log[1] = log[2]
  /\ log[2].kind = "request"
  /\ csv_logger.columns = FixedColumns \o <<ColumnName(1, 100)>>
  /\ csv_logger.files[1] =
       <<csv_logger.columns,
         <<IsoFormat(0), Str(1), <<"WRITE">>, Str(2)>>,
         <<IsoFormat(0), Str(1), <<"WRITE">>, Str(2)>>>>

-----------------------------------------------------------------------------
(* Read responses that are as long as a request.                          *)

(* C37, as claimed: every CRC-valid FC1-FC4 response frame at the buffer   *)
(* front is classified as Response and never as Request, for every byte    *)
(* count including 3 (where the response is 8 bytes long, the same length  *)
(* and CRC span as a request), and accepting it never creates a            *)
(* pending-request entry.                                                  *)
C37_ResponseNotRequest ==
  (call.iterations > 0 /\ CountedResponse(call.input) /\ call.input[2] \in {1, 2, 3, 4})
    => (/\ ~Classify(call.input, 0).request
        /\ Classify(call.input, 0).responce
        /\ \A j \in DOMAIN FrameLines : FrameLines[j].kind = "response"
        /\ DOMAIN pendingRequests \subseteq DOMAIN call.pending)

-----------------------------------------------------------------------------
(* The schema after a failed log_data call.                                *)

(* C38, as claimed: if the file rewrite triggered by new columns (or any   *)
(* file operation in log_data) fails, the logger's in-memory schema        *)
(* (columns and register_map) is left as it was before the call, so the    *)
(* header on disk and the in-memory column list still agree and later rows *)
(* stay aligned to the header.                                             *)
C38_SchemaKeptOnFailure ==
  call.raised =>
    /\ csv_logger.files[csv_logger.csv_file][1] = csv_logger.columns
    /\ \A key \in DOMAIN csv_logger.register_map :
         /\ csv_logger.register_map[key] < Len(csv_logger.files[csv_logger.csv_file][1])
         /\ csv_logger.files[csv_logger.csv_file][1][csv_logger.register_map[key] + 1]
              = ColumnName(key[1], key[2])

-----------------------------------------------------------------------------
(* The log view over a short exchange: up to MaxShown chunks, each a read   *)
(* request, its response, or the request behind a stray byte (which puts    *)
(* an "Ignoring data" line, neither Master nor Slave, in front of it).      *)

MaxShown ==
  4

GuiTraffic ==
  {Request8(1, 3, 100, 2), ResponseN(1, 3, Payload(4)),
   <<200>> \o Request8(1, 3, 100, 2)}

RECURSIVE Exchanges(_)
Exchanges(n) ==
  IF n = 0 THEN {<<>>}
  ELSE {<<F>> \o w : F \in GuiTraffic, w \in Exchanges(n - 1)}

InitGui ==
  /\ Fresh(FALSE, FALSE, FALSE, FALSE)
  /\ wire \in UNION {Exchanges(n) : n \in 1..MaxShown}

NextGui ==
  NextBus \/ ShowLine

SpecGui ==
  InitGui /\ [][NextGui]_vars

MasterShown(k) ==
  Mentions(gui.log_window[k].entry, "Master")

SlaveShown(k) ==
  Mentions(gui.log_window[k].entry, "Slave")

(* The entries above entry k that are Master lines, and those of them not  *)
(* rendered red.                                                           *)
MastersAbove(k) ==
  {j \in 1..(k - 1) : MasterShown(j)}

OkMastersAbove(k) ==
  {j \in MastersAbove(k) : gui.log_window[j].colour # "red"}

Nearest(S) ==
  CHOOSE j \in S : \A i \in S : i <= j

(* There is a Master line above entry k, and no Slave line between the     *)
(* nearest of them and entry k.                                            *)
Unanswered(k) ==
  /\ MastersAbove(k) # {}
  /\ \A s \in (Nearest(MastersAbove(k)) + 1)..(k - 1) : ~SlaveShown(s)

(* C39: the log window holds the lines logged so far, in order; a Master   *)
(* line is red exactly when no Slave line came since the Master line       *)
(* before it; a Master line that is not red is green or blue and not the   *)
(* colour of the nearest non-red Master line above it; a Slave line is     *)
(* green or blue and has the colour of the nearest non-red Master line     *)
(* above it.                                                               *)
C39_Colouring ==
  /\ gui.shown = Len(gui.log_window)
  /\ gui.shown <= Len(log)
  /\ \A k \in DOMAIN gui.log_window :
       /\ gui.log_window[k].entry = log[k]
       /\ MasterShown(k) =>
            /\ gui.log_window[k].colour = "red" <=> Unanswered(k)
            /\ ~Unanswered(k) =>
                 /\ gui.log_window[k].colour \in {"green", "blue"}
                 /\ OkMastersAbove(k) # {} =>
                      gui.log_window[k].colour
                        # gui.log_window[Nearest(OkMastersAbove(k))].colour
       /\ SlaveShown(k) =>
            /\ gui.log_window[k].colour \in {"green", "blue"}
            /\ OkMastersAbove(k) # {} =>
                 gui.log_window[k].colour
                   = gui.log_window[Nearest(OkMastersAbove(k))].colour

(* Four lines are shown: a green request, a red request, a green response  *)
(* and a blue request.                                                     *)
C39_Witness ==
  /\ Len(gui.log_window) = 4
  /\ \A k \in 1..4 : gui.log_window[k].entry.who = <<"Master", "Master", "Slave", "Master">>[k]
  /\ \A k \in 1..4 : gui.log_window[k].colour = <<"green", "red", "green", "blue">>[k]

====
